---- MODULE Spec2Model ----
(***************************************************************************)
(* Model of the extraction -> download pipeline of the Kemono/Coomer       *)
(* downloader (src/src/parallel_extract_download.py) and of the per-file   *)
(* verification gate and resumable transfer engine                         *)
(* (src/src/batch_file_downloader.py, src/src/download_utils.py).          *)
(***************************************************************************)
EXTENDS Integers, Sequences, FiniteSets, TLC

(***************************************************************************)
(* Bounds of the model.                                                    *)
(***************************************************************************)
\* capacity of post_queue (Queue(maxsize=10) in the source, scaled down)
QueueCap == 1
\* largest value tried for config.parallel_download_workers
MaxWorkers == 2
\* largest number of records extract_posts_streaming yields in one run
NumPosts == 3

\* the termination marker the coordinator enqueues (None in the source)
Sentinel == 0

PostIds == 1..NumPosts
WorkerIds == 1..MaxWorkers

(***************************************************************************)
(* Records.  A record carries its file list; what the worker finds in the  *)
(* record's folder and what the transfers of its files do is fixed with    *)
(* the record when it is yielded:                                          *)
(*   files  - len(post["files"])                                           *)
(*   local  - files whose final file is on disk, non-empty, no .part       *)
(*   parts  - files for which only <name>.part is on disk                  *)
(*   bad    - files whose transfer fails after exhausting its retries      *)
(*   raises - processing the record raises an exception                    *)
(***************************************************************************)
Post(f, l, p, b, r) == [files |-> f, local |-> l, parts |-> p, bad |-> b, raises |-> r]

NoPost == Post(0, 0, 0, 0, FALSE)

PostKinds ==
    { Post(0, 0, 0, 0, FALSE),
      Post(2, 0, 0, 0, FALSE),
      Post(2, 1, 0, 0, FALSE),
      Post(2, 2, 0, 0, FALSE),
      Post(2, 1, 1, 0, FALSE),
      Post(2, 0, 0, 1, FALSE),
      Post(2, 0, 0, 0, TRUE) }

VARIABLES
    \* ---- pipeline (extract_and_download_parallel) ----
    download_workers_count, \* config.parallel_download_workers
    post_queue,             \* items of post_queue, head first
    unfinished_tasks,       \* Queue.unfinished_tasks (put increments, task_done decrements)
    extraction_done,        \* the Event
    download_stats,         \* {"total","downloaded","skipped","failed"}
    epc,                    \* position of extraction_worker
    emitted,                \* records yielded so far by extract_posts_streaming
    posts,                  \* the record yielded under each id
    wpc,                    \* position of each download_worker
    wpost,                  \* the local variable post of each download_worker
    mainpc,                 \* position of the coordinator
    sentinel_i,             \* loop index of the sentinel loop
    final_stats,            \* final_total, final_downloaded, final_skipped, final_failed
    \* ---- history (observation only) ----
    enqueued,               \* ids whose put succeeded
    acked,                  \* ids for which task_done was called
    sentinels_put,          \* number of sentinel puts that succeeded
    \* ---- one file through process_post / download_with_resume ----
    skip_existed_files,     \* config.skip_existed_files
    strict_file_verification, \* config.strict_file_verification
    range_ok,               \* the server honours Range (206 / 416) or ignores it (200)
    reliable,               \* no request, stream or rename fails in this environment
    remote_size,            \* length of the remote file
    caller,                 \* the gate in front of the engine: process_post or download_files
    final_exists,           \* os.path.exists(file_path)
    final_data,             \* bytes of file_path
    temp_exists,            \* os.path.exists(file_path + ".part")
    temp_data,              \* bytes of file_path + ".part"
    fpc,                    \* position in process_post / download_with_resume
    gate,                   \* classification of the file by the pre-check and verify_file
    chk_size,               \* existing_size read by the pre-check, passed to verify_file
    attempt,                \* attempt of download_with_resume
    existing_size,          \* existing_size of download_with_resume
    body,                   \* bytes of the response not yet read by iter_content
    file_result,            \* outcome of the file: none, skipped, ok, failed
    file_error,             \* error message returned by download_with_resume
    \* ---- history (observation only) ----
    gets,                   \* GET requests issued in this run
    ranges,                 \* Range start of each GET of this run (NoRange if none)
    received,               \* body bytes written by this run
    start_temp,             \* size of the partial when download_with_resume was entered
    start_final,            \* size of the final file at that time
    matched,                \* a HEAD probe returned the size of the existing final file
    last_head,              \* what the last HEAD probe of this run returned
    heads,                  \* HEAD requests issued in this run
    runs,                   \* runs of process_post over this file so far
    last_error,             \* error of the last failed attempt of this run
    slept                   \* the time.sleep calls of this run, in seconds

pipeVars == << download_workers_count, post_queue, unfinished_tasks, extraction_done,
               download_stats, epc, emitted, posts, wpc, wpost, mainpc, sentinel_i,
               final_stats, enqueued, acked, sentinels_put >>

envVars == << skip_existed_files, strict_file_verification, range_ok, reliable, remote_size,
             caller >>

diskVars == << final_exists, final_data, temp_exists, temp_data >>

runVars == << fpc, gate, chk_size, attempt, existing_size, body, file_result >>

histVars == << gets, ranges, received, start_temp, start_final, matched, last_head, heads,
              runs >>

errVars == << file_error, last_error, slept >>

fileVars == << envVars, diskVars, runVars, histVars, errVars >>

VARIABLES
    \* ---- the failure ledger (failed_downloads.txt) ----
    failed_file,            \* lines of FAILED_FILE, in file order
    \* ---- one batch: process_post over the files of one post ----
    total_files,            \* len(downloads)
    download_max_workers,   \* config.download_max_workers
    file_kind,              \* what is on disk for each file before the batch
    bpc,                    \* position of process_post
    skipped_count,          \* skipped_count
    files_to_verify,        \* files whose verify_file has not been collected yet
    files_to_download,      \* files_to_download, in list order
    futures,                \* files submitted to the download pool, in order
    next_future,            \* index in futures of the result awaited next
    future_state,           \* none, pending, running, saving, done or cancelled
    task_result,            \* what download_with_resume returned in each task
    loaded,                 \* the set read by load_failed_downloads in each task
    successful,             \* successful
    failed,                 \* failed, as the list of files appended
    \* ---- history (observation only) ----
    interrupted,            \* a KeyboardInterrupt was raised in the orchestrator
    pending_at_interrupt,   \* tasks submitted and not started at that time
    skipped_files,          \* files counted in skipped_count
    ledger0                 \* the persisted set before the batch

batchVars == << total_files, download_max_workers, file_kind, bpc, skipped_count,
                files_to_verify, files_to_download, futures, next_future, future_state,
                task_result, loaded, successful, failed, interrupted,
                pending_at_interrupt, skipped_files, ledger0 >>

VARIABLES
    \* ---- the ledger functions called one after the other ----
    lpc,                    \* position: calls, retry, returned, raised
    calls_made,             \* calls of add / remove_failed_download so far
    retry_args_given,       \* max_retries and backoff are passed to retry_failed_downloads
    retry_todo,             \* URLs of sorted(failed) not retried yet
    still_failed,           \* still_failed
    \* ---- history (observation only) ----
    last_call,              \* the last call of add / remove, with the sets around it
    prev_call,              \* the call before it
    listed,                 \* the set loaded by retry_failed_downloads
    succeeded               \* URLs whose retry transfer succeeded

seqVars == << lpc, calls_made, retry_args_given, retry_todo, still_failed, last_call,
              prev_call, listed, succeeded >>

VARIABLES
    \* ---- extract_posts_streaming, run by extraction_worker ----
    fetch_mode,             \* the fetch mode, parsed into its kind and numbers
    post_count,             \* user_data["post_count"]
    offsets,                \* what parse_fetch_mode returned, then the list looped over
    id_filter,              \* id_filter: none, one id, or the range id1..id2
    ppc,                    \* position of the generator
    next_offset,            \* index in offsets of the next offset of the loop
    page_posts,             \* processed_posts not yielded yet (ids)
    found_ids,              \* found_ids
    \* ---- history (observation only) ----
    fetched,                \* offsets passed to fetch_posts, in order
    yielded,                \* number of records yielded
    end_cause               \* how the generator ended

planVars == << fetch_mode, post_count, offsets, id_filter, ppc, next_offset, page_posts,
               found_ids, fetched, yielded, end_cause >>

VARIABLES
    \* ---- destinations: download_worker calling process_post ----
    post_folder_name,       \* config.post_folder_name
    listed_posts,           \* records on post_queue, not taken by a worker yet
    dpc,                    \* position of each download worker
    dpost,                  \* post of each worker
    downloads,              \* downloads of each worker's process_post (the save paths)
    dispatched              \* indexes in downloads of the files of files_to_download

destVars == << post_folder_name, listed_posts, dpc, dpost, downloads, dispatched >>

restVars == << failed_file, batchVars, seqVars, planVars, destVars >>

vars == << pipeVars, fileVars, restVars >>

Workers == 1..download_workers_count

ZeroStats == [total |-> 0, downloaded |-> 0, skipped |-> 0, failed |-> 0]

(***************************************************************************)
(* process_post, reduced to the counts it returns.  With the default       *)
(* configuration (skip_existed_files, no strict verification) the files    *)
(* already on disk are skipped, the others are transferred, and            *)
(* successful = transferred + skipped.                                     *)
(***************************************************************************)
process_post(post) ==
    LET total == post.files
        skipped == post.local
        to_download == total - skipped
        failures == IF post.bad <= to_download THEN post.bad ELSE to_download
        transferred == to_download - failures
    IN  [total_files |-> total, successful |-> transferred + skipped,
         failed |-> failures]

\* len(os.listdir(post_folder)) restricted to regular files: .part files count
existing_files(post) == post.local + post.parts

\* the counters counting files instead of records
StatsAfterPost_CountFiles(stats, post) ==
    LET result == process_post(post) IN
    [stats EXCEPT !.downloaded = @ + (result.successful - post.local),
                  !.skipped = @ + post.local,
                  !.failed = @ + result.failed]

(***************************************************************************)
(* The counter update of download_worker for one dequeued record.          *)
(***************************************************************************)
StatsAfterPost(stats, post) ==
    LET expected_files == post.files IN
    IF expected_files > 0 /\ existing_files(post) = expected_files
    THEN [stats EXCEPT !.skipped = @ + 1]
    ELSE IF post.raises
         THEN [stats EXCEPT !.failed = @ + 1]
         ELSE LET result == process_post(post) IN
              IF result.successful = result.total_files
              THEN [stats EXCEPT !.downloaded = @ + 1]
              ELSE [stats EXCEPT !.failed = @ + 1]

PipeInit ==
    /\ download_workers_count \in 1..MaxWorkers
    /\ post_queue = << >>
    /\ unfinished_tasks = 0
    /\ extraction_done = FALSE
    /\ download_stats = ZeroStats
    /\ epc = "next"
    /\ emitted = 0
    /\ posts = [p \in PostIds |-> NoPost]
    /\ wpc = [w \in WorkerIds |-> IF w <= download_workers_count THEN "get" ELSE "unused"]
    /\ wpost = [w \in WorkerIds |-> Sentinel]
    /\ mainpc = "monitor"
    /\ sentinel_i = 0
    /\ final_stats = ZeroStats
    /\ enqueued = {}
    /\ acked = {}
    /\ sentinels_put = 0

(***************************************************************************)
(* extraction_worker                                                       *)
(***************************************************************************)
\* the generator yields the next record; total += 1 under the lock
ExtractYield ==
    /\ epc = "next"
    /\ emitted < NumPosts
    /\ \E k \in PostKinds :
          posts' = [posts EXCEPT ![emitted + 1] = k]
    /\ emitted' = emitted + 1
    /\ download_stats' = [download_stats EXCEPT !.total = @ + 1]
    /\ epc' = "put"
    /\ UNCHANGED << download_workers_count, post_queue, unfinished_tasks, extraction_done,
                    wpc, wpost, mainpc, sentinel_i, final_stats, enqueued, acked,
                    sentinels_put >>
    /\ UNCHANGED << fileVars, restVars >>

\* the generator is exhausted, or raises: both reach the finally clause
ExtractEnd ==
    /\ epc = "next"
    /\ epc' = "finally"
    /\ UNCHANGED << download_workers_count, post_queue, unfinished_tasks, extraction_done,
                    download_stats, emitted, posts, wpc, wpost, mainpc, sentinel_i,
                    final_stats, enqueued, acked, sentinels_put >>
    /\ UNCHANGED << fileVars, restVars >>

\* post_queue.put(post, timeout=10) finds room
PutPost ==
    /\ epc = "put"
    /\ Len(post_queue) < QueueCap
    /\ post_queue' = Append(post_queue, emitted)
    /\ unfinished_tasks' = unfinished_tasks + 1
    /\ enqueued' = enqueued \cup {emitted}
    /\ epc' = "next"
    /\ UNCHANGED << download_workers_count, extraction_done, download_stats, emitted, posts,
                    wpc, wpost, mainpc, sentinel_i, final_stats, acked, sentinels_put >>
    /\ UNCHANGED << fileVars, restVars >>

\* the put raises queue.Full after the timeout: the handler prints a warning
\* and the for loop goes on to the next record
PutTimeout ==
    /\ epc = "put"
    /\ Len(post_queue) >= QueueCap
    /\ epc' = "next"
    /\ UNCHANGED << download_workers_count, post_queue, unfinished_tasks, extraction_done,
                    download_stats, emitted, posts, wpc, wpost, mainpc, sentinel_i,
                    final_stats, enqueued, acked, sentinels_put >>
    /\ UNCHANGED << fileVars, restVars >>

\* the thread ending without setting the Event
ExtractFinally_FlagNotSet ==
    /\ epc = "finally"
    /\ extraction_done' = extraction_done
    /\ epc' = "ended"
    /\ UNCHANGED << download_workers_count, post_queue, unfinished_tasks, download_stats,
                    emitted, posts, wpc, wpost, mainpc, sentinel_i, final_stats, enqueued,
                    acked, sentinels_put >>
    /\ UNCHANGED << fileVars, restVars >>

\* finally: extraction_done.set(); the thread ends
ExtractFinally ==
    /\ epc = "finally"
    /\ extraction_done' = TRUE
    /\ epc' = "ended"
    /\ UNCHANGED << download_workers_count, post_queue, unfinished_tasks, download_stats,
                    emitted, posts, wpc, wpost, mainpc, sentinel_i, final_stats, enqueued,
                    acked, sentinels_put >>
    /\ UNCHANGED << fileVars, restVars >>

(***************************************************************************)
(* download_worker                                                         *)
(***************************************************************************)
\* post_queue.get(timeout=1) returns a record
WorkerGetPost(w) ==
    /\ wpc[w] = "get"
    /\ post_queue # << >>
    /\ Head(post_queue) # Sentinel
    /\ wpost' = [wpost EXCEPT ![w] = Head(post_queue)]
    /\ post_queue' = Tail(post_queue)
    /\ wpc' = [wpc EXCEPT ![w] = "process"]
    /\ UNCHANGED << download_workers_count, unfinished_tasks, extraction_done, download_stats,
                    epc, emitted, posts, mainpc, sentinel_i, final_stats, enqueued, acked,
                    sentinels_put >>
    /\ UNCHANGED << fileVars, restVars >>

\* post_queue.get returns the sentinel: break, without task_done
WorkerGetSentinel_Counted(w) ==
    /\ wpc[w] = "get"
    /\ post_queue # << >>
    /\ Head(post_queue) = Sentinel
    /\ wpost' = [wpost EXCEPT ![w] = Sentinel]
    /\ post_queue' = Tail(post_queue)
    /\ wpc' = [wpc EXCEPT ![w] = "exited"]
    /\ download_stats' = [download_stats EXCEPT !.downloaded = @ + 1]
    /\ UNCHANGED << download_workers_count, unfinished_tasks, extraction_done,
                    epc, emitted, posts, mainpc, sentinel_i, final_stats, enqueued, acked,
                    sentinels_put >>
    /\ UNCHANGED << fileVars, restVars >>

WorkerGetSentinel(w) ==
    /\ wpc[w] = "get"
    /\ post_queue # << >>
    /\ Head(post_queue) = Sentinel
    /\ wpost' = [wpost EXCEPT ![w] = Sentinel]
    /\ post_queue' = Tail(post_queue)
    /\ wpc' = [wpc EXCEPT ![w] = "exited"]
    /\ UNCHANGED << download_workers_count, unfinished_tasks, extraction_done, download_stats,
                    epc, emitted, posts, mainpc, sentinel_i, final_stats, enqueued, acked,
                    sentinels_put >>
    /\ UNCHANGED << fileVars, restVars >>

\* post_queue.get raises Empty after the timeout
WorkerGetEmpty(w) ==
    /\ wpc[w] = "get"
    /\ post_queue = << >>
    /\ wpc' = [wpc EXCEPT ![w] = "empty"]
    /\ UNCHANGED << download_workers_count, post_queue, unfinished_tasks, extraction_done,
                    download_stats, epc, emitted, posts, wpost, mainpc, sentinel_i,
                    final_stats, enqueued, acked, sentinels_put >>
    /\ UNCHANGED << fileVars, restVars >>

\* except Empty: if extraction_done.is_set(): break / continue
WorkerCheckDone(w) ==
    /\ wpc[w] = "empty"
    /\ wpc' = [wpc EXCEPT ![w] = IF extraction_done THEN "exited" ELSE "get"]
    /\ UNCHANGED << download_workers_count, post_queue, unfinished_tasks, extraction_done,
                    download_stats, epc, emitted, posts, wpost, mainpc, sentinel_i,
                    final_stats, enqueued, acked, sentinels_put >>
    /\ UNCHANGED << fileVars, restVars >>

\* the record is skipped, downloaded or failed; the counter is updated
WorkerProcess(w) ==
    /\ wpc[w] = "process"
    /\ download_stats' = StatsAfterPost(download_stats, posts[wpost[w]])
    /\ wpc' = [wpc EXCEPT ![w] = "task_done"]
    /\ UNCHANGED << download_workers_count, post_queue, unfinished_tasks, extraction_done,
                    epc, emitted, posts, wpost, mainpc, sentinel_i, final_stats, enqueued,
                    acked, sentinels_put >>
    /\ UNCHANGED << fileVars, restVars >>

\* the finally clause leaving the record unacknowledged
WorkerTaskDone_Unacked(w) ==
    /\ wpc[w] = "task_done"
    /\ wpost' = [wpost EXCEPT ![w] = Sentinel]
    /\ wpc' = [wpc EXCEPT ![w] = "get"]
    /\ UNCHANGED << download_workers_count, post_queue, unfinished_tasks, extraction_done,
                    download_stats, epc, emitted, posts, mainpc, sentinel_i, final_stats,
                    enqueued, acked, sentinels_put >>
    /\ UNCHANGED << fileVars, restVars >>

\* finally: post_queue.task_done(); the next iteration starts with post = None
WorkerTaskDone(w) ==
    /\ wpc[w] = "task_done"
    /\ unfinished_tasks' = unfinished_tasks - 1
    /\ acked' = acked \cup {wpost[w]}
    /\ wpost' = [wpost EXCEPT ![w] = Sentinel]
    /\ wpc' = [wpc EXCEPT ![w] = "get"]
    /\ UNCHANGED << download_workers_count, post_queue, extraction_done, download_stats,
                    epc, emitted, posts, mainpc, sentinel_i, final_stats, enqueued,
                    sentinels_put >>
    /\ UNCHANGED << fileVars, restVars >>

(***************************************************************************)
(* the coordinator (body of extract_and_download_parallel)                 *)
(***************************************************************************)
\* while not extraction_done.is_set() or not post_queue.empty(): the loop is
\* left; an iteration of its body only prints the counters and sleeps, and
\* the flag, once read as set, stays set while the queue is read
MainMonitorExit ==
    /\ mainpc = "monitor"
    /\ extraction_done
    /\ post_queue = << >>
    /\ mainpc' = "join_extract"
    /\ UNCHANGED << download_workers_count, post_queue, unfinished_tasks, extraction_done,
                    download_stats, epc, emitted, posts, wpc, wpost, sentinel_i, final_stats,
                    enqueued, acked, sentinels_put >>
    /\ UNCHANGED << fileVars, restVars >>

\* extract_thread.join()
MainJoinExtract ==
    /\ mainpc = "join_extract"
    /\ epc = "ended"
    /\ mainpc' = "join_queue"
    /\ UNCHANGED << download_workers_count, post_queue, unfinished_tasks, extraction_done,
                    download_stats, epc, emitted, posts, wpc, wpost, sentinel_i, final_stats,
                    enqueued, acked, sentinels_put >>
    /\ UNCHANGED << fileVars, restVars >>

\* join returning as soon as the queue is empty, records still in process
QueueJoined_WhenEmpty == post_queue = << >>

\* the condition post_queue.join() waits for
QueueJoined == unfinished_tasks = 0

\* post_queue.join()
MainJoinQueue ==
    /\ mainpc = "join_queue"
    /\ QueueJoined
    /\ mainpc' = "sentinels"
    /\ UNCHANGED << download_workers_count, post_queue, unfinished_tasks, extraction_done,
                    download_stats, epc, emitted, posts, wpc, wpost, sentinel_i, final_stats,
                    enqueued, acked, sentinels_put >>
    /\ UNCHANGED << fileVars, restVars >>

\* post_queue.put(None, timeout=5) finds room
MainPutSentinel ==
    /\ mainpc = "sentinels"
    /\ sentinel_i < download_workers_count
    /\ Len(post_queue) < QueueCap
    /\ post_queue' = Append(post_queue, Sentinel)
    /\ unfinished_tasks' = unfinished_tasks + 1
    /\ sentinels_put' = sentinels_put + 1
    /\ sentinel_i' = sentinel_i + 1
    /\ UNCHANGED << download_workers_count, extraction_done, download_stats, epc, emitted,
                    posts, wpc, wpost, mainpc, final_stats, enqueued, acked >>
    /\ UNCHANGED << fileVars, restVars >>

\* the put raises queue.Full: "Queue might be full, continue anyway"
MainSentinelTimeout ==
    /\ mainpc = "sentinels"
    /\ sentinel_i < download_workers_count
    /\ Len(post_queue) >= QueueCap
    /\ sentinel_i' = sentinel_i + 1
    /\ UNCHANGED << download_workers_count, post_queue, unfinished_tasks, extraction_done,
                    download_stats, epc, emitted, posts, wpc, wpost, mainpc, final_stats,
                    enqueued, acked, sentinels_put >>
    /\ UNCHANGED << fileVars, restVars >>

\* the sentinel loop is over
MainSentinelsPut ==
    /\ mainpc = "sentinels"
    /\ sentinel_i >= download_workers_count
    /\ mainpc' = "join_workers"
    /\ UNCHANGED << download_workers_count, post_queue, unfinished_tasks, extraction_done,
                    download_stats, epc, emitted, posts, wpc, wpost, sentinel_i, final_stats,
                    enqueued, acked, sentinels_put >>
    /\ UNCHANGED << fileVars, restVars >>

\* thread.join(timeout=30) for every worker, then the final read of the
\* counters.  Every worker still alive here is polling the queue and leaves
\* at its next poll (sentinel, or Empty with the flag set), so the 30 s
\* never elapse.
MainJoinWorkers ==
    /\ mainpc = "join_workers"
    /\ \A w \in Workers : wpc[w] = "exited"
    /\ final_stats' = download_stats
    /\ mainpc' = "done"
    /\ UNCHANGED << download_workers_count, post_queue, unfinished_tasks, extraction_done,
                    download_stats, epc, emitted, posts, wpc, wpost, sentinel_i, enqueued,
                    acked, sentinels_put >>
    /\ UNCHANGED << fileVars, restVars >>

(***************************************************************************)
(* One candidate file of one record: the pre-check and verify_file of      *)
(* process_post, then download_file / download_with_resume.                *)
(***************************************************************************)
\* None, for a size that is not known
NoSize == -1
\* no Range header on the request
NoRange == 0

\* the first n bytes of the remote file (byte i of the file is the number i)
Content(n) == [i \in 1..n |-> i]

RemoteData == Content(remote_size)

SizeOf(exists, data) == IF exists THEN Len(data) ELSE NoSize

\* Phase 1 of process_post for one file with the test of the partial left out
PreCheck_PartIgnored(skip, strict, part_exists, f_exists, f_size) ==
    IF ~skip THEN "NeedsDownload"
    ELSE IF f_exists
         THEN IF f_size > 0
              THEN IF strict THEN "NeedsVerify" ELSE "Skip"
              ELSE "NeedsVerify"
         ELSE "NeedsDownload"

\* Phase 1 of process_post for one file
PreCheck(skip, strict, part_exists, f_exists, f_size) ==
    IF ~skip THEN "NeedsDownload"
    ELSE IF part_exists THEN "NeedsDownload"
    ELSE IF f_exists
         THEN IF f_size > 0
              THEN IF strict THEN "NeedsVerify" ELSE "Skip"
              ELSE "NeedsVerify"
         ELSE "NeedsDownload"

\* the pre-check of download_files for one file without the strict flag
\* being read
download_files_PreCheck_StrictIgnored(skip, strict, part_exists, f_exists, f_size) ==
    IF ~skip THEN "NeedsDownload"
    ELSE IF part_exists THEN "NeedsDownload"
    ELSE IF f_exists
         THEN IF f_size > 0 THEN "NeedsVerify" ELSE "NeedsDownload"
         ELSE "NeedsDownload"

\* the pre-check of download_files for one file: an empty final file is
\* downloaded without a HEAD
download_files_PreCheck(skip, strict, part_exists, f_exists, f_size) ==
    IF ~skip THEN "NeedsDownload"
    ELSE IF part_exists THEN "NeedsDownload"
    ELSE IF f_exists
         THEN IF f_size > 0 /\ ~strict THEN "Skip"
              ELSE IF f_size > 0 /\ strict THEN "NeedsVerify"
              ELSE "NeedsDownload"
         ELSE "NeedsDownload"

\* the two gates that dispatch to download_with_resume
Callers == {"process_post", "download_files"}

\* the pre-check of the gate in use
GatePreCheck(skip, strict, part_exists, f_exists, f_size) ==
    IF caller = "process_post"
    THEN PreCheck(skip, strict, part_exists, f_exists, f_size)
    ELSE download_files_PreCheck(skip, strict, part_exists, f_exists, f_size)

\* verify_file taking a failed HEAD for a match
VerifyFile_TrustsOnFailure(local_size, head) ==
    IF head = NoSize THEN "complete"
    ELSE IF head > 0 /\ local_size = head THEN "complete"
    ELSE IF head > 0 THEN "stale"
    ELSE "unknown"

\* verify_file: "complete", "stale" (size mismatch, the final file is moved
\* away) or "unknown"; head is the content-length of a 200 answer, NoSize
\* for an exception or another status
VerifyFile(local_size, head) ==
    IF head = NoSize THEN "unknown"
    ELSE IF head > 0 /\ local_size = head THEN "complete"
    ELSE IF head > 0 THEN "stale"
    ELSE "unknown"

\* history: the size of the final file when a HEAD probe returned that size
ProbeMatch(head, f_exists, f_size) ==
    IF head # NoSize /\ f_exists /\ head = f_size THEN f_size ELSE matched

\* what _get_total_size / requests.head can return here
HeadOutcomes == IF reliable THEN {remote_size} ELSE {remote_size, NoSize}

\* the Range header sent starts at the size of the partial
RangeStart_OneShort(size) == IF size > 0 THEN size - 1 ELSE NoRange

RangeStart(size) == IF size > 0 THEN size ELSE NoRange

\* status the server answers to a GET whose Range starts at range_start
ServerStatus(range_start) ==
    IF range_ok /\ range_start # NoRange
    THEN IF range_start < remote_size THEN 206 ELSE 416
    ELSE 200

\* body of a 200 or 206 answer
ServerBody(range_start) ==
    IF range_ok /\ range_start # NoRange
    THEN SubSeq(RemoteData, range_start + 1, remote_size)
    ELSE RemoteData

\* existing_size kept although the server ignored the Range
ExistingAfterStatus_Kept(size, status) == size

\* "If server ignored Range and returned 200 but we had existing_size>0, restart"
ExistingAfterStatus(size, status) ==
    IF size > 0 /\ status = 200 THEN 0 ELSE size

OpenMode(size) == IF size > 0 THEN "ab" ELSE "wb"

\* the early return taken only for a final file larger than the remote one
FinalIsComplete_Larger(f_exists, f_size, total_size) ==
    f_exists /\ total_size # NoSize /\ f_size > total_size

\* "If final exists and seems complete, return success"
FinalIsComplete(f_exists, f_size, total_size) ==
    f_exists /\ total_size # NoSize /\ f_size = total_size

\* default of max_retries
MaxRetries == 3

\* the error slot of a success (None), and the messages of the failures:
\* str(e) of an exception of requests.get or raise_for_status, str(e) of an
\* exception of the streaming loop, the two literal messages; Http416 is the
\* failure of an attempt that was answered 416, which raises nothing
NoError == "None"
GetError == "str(e) of the request"
StreamError == "str(e) of the stream"
FinalizeError == "Failed to finalize download"
UnknownError == "Unknown error"
Http416 == "416"

\* default of backoff_factor, in seconds
BackoffFactor == 1

\* the wait of the except clause computed from the attempt counter after
\* its increment without the - 1
BackoffWait_NotShifted(n) == BackoffFactor * (2 ^ n)

\* "time.sleep(backoff_factor * (2 ** (attempt - 1)))", n the attempt
\* counter after its increment
BackoffWait(n) == BackoffFactor * (2 ^ (n - 1))

\* "time.sleep(backoff_factor * (2 ** attempt))" of the 416 branch, n the
\* attempt counter after its increment
RestartWait(n) == BackoffFactor * (2 ^ n)

\* giving up one attempt early
Exhausted_OneEarly(n) == n >= MaxRetries - 1

\* "if attempt >= max_retries"
Exhausted(n) == n >= MaxRetries
\* runs of process_post over the same file
MaxRuns == 2
\* largest remote file, in chunks
MaxSize == 3

LocalSizes == 0..(MaxSize + 1)

FileInit ==
    /\ skip_existed_files \in BOOLEAN
    /\ strict_file_verification \in BOOLEAN
    /\ range_ok \in BOOLEAN
    /\ reliable \in BOOLEAN
    /\ remote_size \in 0..MaxSize
    /\ caller \in Callers
    \* on disk: nothing, a final file, or the partial of an interrupted transfer
    /\ \E f, t \in LocalSizes \cup {NoSize} :
          /\ f = NoSize \/ t = NoSize
          /\ final_exists = (f # NoSize)
          /\ final_data = IF f # NoSize THEN Content(f) ELSE << >>
          /\ temp_exists = (t # NoSize)
          /\ temp_data = IF t # NoSize THEN Content(t) ELSE << >>
    /\ fpc = "precheck"
    /\ gate = "none"
    /\ chk_size = 0
    /\ attempt = 0
    /\ existing_size = 0
    /\ body = << >>
    /\ file_result = "none"
    /\ gets = 0
    /\ ranges = << >>
    /\ received = 0
    /\ start_temp = NoSize
    /\ start_final = NoSize
    /\ matched = NoSize
    /\ last_head = NoSize
    /\ heads = 0
    /\ runs = 1
    /\ file_error = NoError
    /\ last_error = NoError
    /\ slept = << >>

\* the file-level variables while the pipeline is modelled
FileIdle ==
    /\ skip_existed_files = TRUE
    /\ strict_file_verification = FALSE
    /\ range_ok = TRUE
    /\ reliable = TRUE
    /\ remote_size = 0
    /\ caller = "process_post"
    /\ final_exists = FALSE
    /\ final_data = << >>
    /\ temp_exists = FALSE
    /\ temp_data = << >>
    /\ fpc = "idle"
    /\ gate = "none"
    /\ chk_size = 0
    /\ attempt = 0
    /\ existing_size = 0
    /\ body = << >>
    /\ file_result = "none"
    /\ gets = 0
    /\ ranges = << >>
    /\ received = 0
    /\ start_temp = NoSize
    /\ start_final = NoSize
    /\ matched = NoSize
    /\ last_head = NoSize
    /\ heads = 0
    /\ runs = 1
    /\ file_error = NoError
    /\ last_error = NoError
    /\ slept = << >>

\* the pipeline variables while one file is modelled
PipeIdle ==
    /\ download_workers_count = 1
    /\ post_queue = << >>
    /\ unfinished_tasks = 0
    /\ extraction_done = FALSE
    /\ download_stats = ZeroStats
    /\ epc = "idle"
    /\ emitted = 0
    /\ posts = [p \in PostIds |-> NoPost]
    /\ wpc = [w \in WorkerIds |-> "unused"]
    /\ wpost = [w \in WorkerIds |-> Sentinel]
    /\ mainpc = "idle"
    /\ sentinel_i = 0
    /\ final_stats = ZeroStats
    /\ enqueued = {}
    /\ acked = {}
    /\ sentinels_put = 0

\* download_file calls download_with_resume: attempt = 0
EnterTransfer ==
    /\ fpc' = "probe"
    /\ attempt' = 0
    /\ start_temp' = SizeOf(temp_exists', temp_data')
    /\ start_final' = SizeOf(final_exists', final_data')

\* the pre-check of the file (Phase 1)
FilePreCheck ==
    /\ fpc = "precheck"
    /\ UNCHANGED diskVars
    /\ LET c == GatePreCheck(skip_existed_files, strict_file_verification, temp_exists,
                             final_exists, Len(final_data)) IN
       /\ gate' = c
       /\ chk_size' = IF final_exists THEN Len(final_data) ELSE 0
       /\ CASE c = "Skip" ->
                 /\ fpc' = "end" /\ file_result' = "skipped"
                 /\ UNCHANGED << attempt, start_temp, start_final >>
            [] c = "NeedsVerify" ->
                 /\ fpc' = "verify"
                 /\ UNCHANGED << file_result, attempt, start_temp, start_final >>
            [] OTHER ->
                 /\ EnterTransfer
                 /\ UNCHANGED file_result
    /\ UNCHANGED << existing_size, body >>
    /\ UNCHANGED << gets, ranges, received, matched, last_head, heads, runs >>
    /\ UNCHANGED errVars
    /\ UNCHANGED << envVars, pipeVars, restVars >>

\* verify_file finds the local size equal to the remote one: skipped
FileVerifyComplete ==
    /\ fpc = "verify"
    /\ \E head \in HeadOutcomes :
          /\ VerifyFile(chk_size, head) = "complete"
          /\ last_head' = head
    /\ heads' = heads + 1
    /\ matched' = ProbeMatch(last_head', TRUE, chk_size)
    /\ gate' = "Skip"
    /\ fpc' = "end"
    /\ file_result' = "skipped"
    /\ UNCHANGED << chk_size, attempt, existing_size, body >>
    /\ UNCHANGED << gets, ranges, received, start_temp, start_final, runs >>
    /\ UNCHANGED errVars
    /\ UNCHANGED << envVars, diskVars, pipeVars, restVars >>

\* verify_file of process_post finds another size: os.replace(file_path,
\* part_path), or os.remove(file_path) when the move fails; the file is to
\* be downloaded
FileVerifyStale ==
    /\ fpc = "verify"
    /\ caller = "process_post"
    /\ \E head \in HeadOutcomes :
          /\ VerifyFile(chk_size, head) = "stale"
          /\ last_head' = head
    /\ heads' = heads + 1
    /\ matched' = ProbeMatch(last_head', TRUE, chk_size)
    /\ \/ /\ temp_exists' = TRUE
          /\ temp_data' = final_data
       \/ /\ ~reliable
          /\ UNCHANGED << temp_exists, temp_data >>
    /\ final_exists' = FALSE
    /\ final_data' = << >>
    /\ gate' = "NeedsDownload"
    /\ EnterTransfer
    /\ UNCHANGED << chk_size, existing_size, body, file_result >>
    /\ UNCHANGED << gets, ranges, received, runs >>
    /\ UNCHANGED errVars
    /\ UNCHANGED << envVars, pipeVars, restVars >>

\* verify_file of download_files finds another size: it returns False and
\* leaves file_path where it is; the file is to be downloaded
FileVerifyStaleKept ==
    /\ fpc = "verify"
    /\ caller = "download_files"
    /\ \E head \in HeadOutcomes :
          /\ VerifyFile(chk_size, head) = "stale"
          /\ last_head' = head
    /\ heads' = heads + 1
    /\ matched' = ProbeMatch(last_head', TRUE, chk_size)
    /\ gate' = "NeedsDownload"
    /\ UNCHANGED diskVars
    /\ EnterTransfer
    /\ UNCHANGED << chk_size, existing_size, body, file_result >>
    /\ UNCHANGED << gets, ranges, received, runs >>
    /\ UNCHANGED errVars
    /\ UNCHANGED << envVars, pipeVars, restVars >>

\* the HEAD of verify_file fails, answers another status or no usable length
FileVerifyUnknown ==
    /\ fpc = "verify"
    /\ \E head \in HeadOutcomes :
          /\ VerifyFile(chk_size, head) = "unknown"
          /\ last_head' = head
    /\ heads' = heads + 1
    /\ matched' = ProbeMatch(last_head', TRUE, chk_size)
    /\ gate' = "NeedsDownload"
    /\ UNCHANGED diskVars
    /\ EnterTransfer
    /\ UNCHANGED << chk_size, existing_size, body, file_result >>
    /\ UNCHANGED << gets, ranges, received, runs >>
    /\ UNCHANGED errVars
    /\ UNCHANGED << envVars, pipeVars, restVars >>

\* the except clause of the attempt: attempt += 1, give up or sleep and retry
AttemptFails(e) ==
    /\ attempt' = attempt + 1
    /\ last_error' = e
    /\ IF Exhausted(attempt + 1)
       THEN /\ fpc' = "end" /\ file_result' = "failed" /\ file_error' = e
            /\ UNCHANGED slept
       ELSE /\ fpc' = "probe" /\ UNCHANGED << file_result, file_error >>
            /\ slept' = Append(slept, BackoffWait(attempt + 1))

\* HEAD probe; the final file has the probed size: return True, None
XferProbeComplete ==
    /\ fpc = "probe"
    /\ \E total_size \in HeadOutcomes :
          /\ FinalIsComplete(final_exists, Len(final_data), total_size)
          /\ last_head' = total_size
    /\ heads' = heads + 1
    /\ matched' = ProbeMatch(last_head', final_exists, Len(final_data))
    /\ fpc' = "end"
    /\ file_result' = "ok"
    /\ UNCHANGED << gate, chk_size, attempt, existing_size, body >>
    /\ UNCHANGED << gets, ranges, received, start_temp, start_final, runs >>
    /\ UNCHANGED errVars
    /\ UNCHANGED << envVars, diskVars, pipeVars, restVars >>

\* HEAD probe; the final file has another size: os.replace(file_path,
\* temp_path), or os.remove(file_path) when the move fails
XferProbeStale ==
    /\ fpc = "probe"
    /\ \E total_size \in HeadOutcomes :
          /\ final_exists /\ total_size # NoSize
          /\ ~FinalIsComplete(final_exists, Len(final_data), total_size)
          /\ last_head' = total_size
    /\ heads' = heads + 1
    /\ matched' = ProbeMatch(last_head', final_exists, Len(final_data))
    /\ \/ /\ temp_exists' = TRUE
          /\ temp_data' = final_data
       \/ /\ ~reliable
          /\ UNCHANGED << temp_exists, temp_data >>
    /\ final_exists' = FALSE
    /\ final_data' = << >>
    /\ existing_size' = IF temp_exists' THEN Len(temp_data') ELSE 0
    /\ fpc' = "get"
    /\ UNCHANGED << gate, chk_size, attempt, body, file_result >>
    /\ UNCHANGED << gets, ranges, received, start_temp, start_final, runs >>
    /\ UNCHANGED errVars
    /\ UNCHANGED << envVars, pipeVars, restVars >>

\* HEAD probe; no final file, or the remote size is unknown
XferProbeResume ==
    /\ fpc = "probe"
    /\ \E total_size \in HeadOutcomes :
          /\ ~(final_exists /\ total_size # NoSize)
          /\ last_head' = total_size
    /\ heads' = heads + 1
    /\ matched' = ProbeMatch(last_head', final_exists, Len(final_data))
    /\ existing_size' = IF temp_exists THEN Len(temp_data) ELSE 0
    /\ fpc' = "get"
    /\ UNCHANGED << gate, chk_size, attempt, body, file_result >>
    /\ UNCHANGED << gets, ranges, received, start_temp, start_final, runs >>
    /\ UNCHANGED errVars
    /\ UNCHANGED << envVars, diskVars, pipeVars, restVars >>

\* history of a GET being issued
IssueGet ==
    /\ gets' = gets + 1
    /\ ranges' = Append(ranges, RangeStart(existing_size))

\* requests.get answers 200 or 206: the partial is dropped if the Range was
\* ignored, temp_path is opened in mode "wb" or "ab"
XferGetOk ==
    /\ fpc = "get"
    /\ IssueGet
    /\ LET status == ServerStatus(RangeStart(existing_size))
           size == ExistingAfterStatus(existing_size, status) IN
       /\ status \in {200, 206}
       /\ existing_size' = size
       /\ temp_exists' = TRUE
       /\ temp_data' = IF OpenMode(size) = "ab" THEN temp_data ELSE << >>
    /\ body' = ServerBody(RangeStart(existing_size))
    /\ fpc' = "stream"
    /\ UNCHANGED << gate, chk_size, attempt, file_result >>
    /\ UNCHANGED << final_exists, final_data >>
    /\ UNCHANGED << received, start_temp, start_final, matched, last_head, heads, runs >>
    /\ UNCHANGED errVars
    /\ UNCHANGED << envVars, pipeVars, restVars >>

\* requests.get answers 416: os.remove(temp_path), attempt += 1, sleep, continue
XferGet416 ==
    /\ fpc = "get"
    /\ IssueGet
    /\ ServerStatus(RangeStart(existing_size)) = 416
    /\ temp_exists' = FALSE
    /\ temp_data' = << >>
    /\ attempt' = attempt + 1
    /\ last_error' = Http416
    /\ slept' = Append(slept, RestartWait(attempt + 1))
    /\ IF attempt + 1 < MaxRetries
       THEN fpc' = "probe" /\ UNCHANGED << file_result, file_error >>
       ELSE fpc' = "end" /\ file_result' = "failed" /\ file_error' = UnknownError
    /\ UNCHANGED << gate, chk_size, existing_size, body >>
    /\ UNCHANGED << final_exists, final_data >>
    /\ UNCHANGED << received, start_temp, start_final, matched, last_head, heads, runs >>
    /\ UNCHANGED << envVars, pipeVars, restVars >>

\* requests.get raises, or answers a status >= 400: the attempt fails
XferGetFails ==
    /\ fpc = "get"
    /\ ~reliable
    /\ IssueGet
    /\ AttemptFails(GetError)
    /\ UNCHANGED << gate, chk_size, existing_size, body >>
    /\ UNCHANGED << received, start_temp, start_final, matched, last_head, heads, runs >>
    /\ UNCHANGED << envVars, diskVars, pipeVars, restVars >>

\* one chunk of iter_content is written to temp_path
XferWriteChunk ==
    /\ fpc = "stream"
    /\ body # << >>
    /\ temp_data' = Append(temp_data, Head(body))
    /\ body' = Tail(body)
    /\ received' = received + 1
    /\ UNCHANGED << fpc, gate, chk_size, attempt, existing_size, file_result >>
    /\ UNCHANGED << final_exists, final_data, temp_exists >>
    /\ UNCHANGED << gets, ranges, start_temp, start_final, matched, last_head, heads, runs >>
    /\ UNCHANGED errVars
    /\ UNCHANGED << envVars, pipeVars, restVars >>

\* the stream breaks: the attempt fails, temp_path keeps what was written
XferStreamFails ==
    /\ fpc = "stream"
    /\ ~reliable
    /\ body # << >>
    /\ body' = << >>
    /\ AttemptFails(StreamError)
    /\ UNCHANGED << gate, chk_size, existing_size >>
    /\ UNCHANGED << gets, ranges, received, start_temp, start_final, matched, last_head, heads, runs >>
    /\ UNCHANGED << envVars, diskVars, pipeVars, restVars >>

\* the body is read: os.replace(temp_path, file_path), or the fallback
\* copy to file_path followed by os.remove(temp_path); return True, None
XferFinalize ==
    /\ fpc = "stream"
    /\ body = << >>
    /\ final_exists' = TRUE
    /\ final_data' = temp_data
    /\ temp_exists' = FALSE
    /\ temp_data' = << >>
    /\ fpc' = "end"
    /\ file_result' = "ok"
    /\ UNCHANGED << gate, chk_size, attempt, existing_size, body >>
    /\ UNCHANGED errVars
    /\ UNCHANGED << histVars, envVars, pipeVars, restVars >>

\* neither the rename nor the copy works: return False, "Failed to finalize
\* download"; temp_path stays
XferFinalizeFails ==
    /\ fpc = "stream"
    /\ body = << >>
    /\ ~reliable
    /\ fpc' = "end"
    /\ file_result' = "failed"
    /\ file_error' = FinalizeError
    /\ UNCHANGED << last_error, slept >>
    /\ UNCHANGED << gate, chk_size, attempt, existing_size, body >>
    /\ UNCHANGED << histVars, envVars, diskVars, pipeVars, restVars >>

\* the record is processed again later (a new process_post over the file)
FileRerun ==
    /\ fpc = "end"
    /\ runs < MaxRuns
    /\ runs' = runs + 1
    /\ fpc' = "precheck"
    /\ gate' = "none"
    /\ chk_size' = 0
    /\ attempt' = 0
    /\ existing_size' = 0
    /\ body' = << >>
    /\ file_result' = "none"
    /\ gets' = 0
    /\ ranges' = << >>
    /\ received' = 0
    /\ start_temp' = NoSize
    /\ start_final' = NoSize
    /\ matched' = NoSize
    /\ last_head' = NoSize
    /\ heads' = 0
    /\ file_error' = NoError
    /\ last_error' = NoError
    /\ slept' = << >>
    /\ UNCHANGED << envVars, diskVars, pipeVars, restVars >>

(***************************************************************************)
(* The failure ledger (failure_handlers.py).  A URL is a number; BlankUrl  *)
(* is a URL that is empty or made of blanks.  The file holds one URL per   *)
(* line.                                                                   *)
(***************************************************************************)
\* files of a post
NumFiles == 2
\* largest value of config.download_max_workers
MaxPoolWorkers == 2

BlankUrl == 0

FileIds == 1..NumFiles

Urls == {BlankUrl} \cup FileIds

RECURSIVE sorted(_)
\* sorted(links), as a list
sorted(links) ==
    IF links = {} THEN << >>
    ELSE LET least == CHOOSE x \in links : \A y \in links : x <= y
         IN  << least >> \o sorted(links \ {least})

\* the set of the stripped lines of the file that are not empty
load_failed_downloads(file) == { file[i] : i \in 1..Len(file) } \ {BlankUrl}

\* the file is rewritten with the sorted links, one per line
save_failed_downloads(links) == sorted(links)

add_failed_download(file, url) ==
    LET failed_set == load_failed_downloads(file)
    IN  save_failed_downloads(failed_set \cup {url})

\* a remove that rewrites the ledger empty
remove_failed_download_Clears(file, url) ==
    save_failed_downloads({})

remove_failed_download(file, url) ==
    LET failed_set == load_failed_downloads(file)
    IN  save_failed_downloads(failed_set \ {url})

(***************************************************************************)
(* One batch: process_post (batch_file_downloader.py) over the files of    *)
(* one post, with the download pool and download_file.  A file is known by *)
(* its index, which also stands for its URL.  The transfer of a file is    *)
(* one step here (download_with_resume returning success or failure).      *)
(***************************************************************************)
\* on disk before the batch: nothing, a final file with content, an empty
\* final file, or the partial of an interrupted transfer
FileKinds == {"nothing", "final", "empty", "part"}

\* os.path.getsize of the final file of that kind
KindSize(kind) == IF kind = "final" THEN 1 ELSE 0

\* content-length seen by verify_file; NoSize is a failed HEAD
BatchHeads == {NoSize, 0, 1, 2}

BatchFiles == 1..total_files

\* Phase 1 for one file
BatchPreCheckOf(f) ==
    PreCheck(skip_existed_files, strict_file_verification, file_kind[f] = "part",
             file_kind[f] \in {"final", "empty"}, KindSize(file_kind[f]))

FileSeq == [i \in 1..total_files |-> i]

InSeq(s) == { s[i] : i \in 1..Len(s) }

\* tasks holding a thread of the pool
Busy == { f \in FileIds : future_state[f] \in {"running", "saving"} }

Pending == { f \in FileIds : future_state[f] = "pending" }

\* the skipped files left out of the count returned
WithSkipped_Dropped(count, skipped) == count

\* "successful += skipped_count"
WithSkipped(count, skipped) == count + skipped

BatchInit ==
    /\ total_files \in 0..NumFiles
    \* the ledger may list files of this post, from earlier batches
    /\ failed_file \in { sorted(S) : S \in SUBSET BatchFiles }
    /\ ledger0 = load_failed_downloads(failed_file)
    /\ download_max_workers \in 1..MaxPoolWorkers
    /\ file_kind \in [FileIds -> FileKinds]
    /\ \A f \in FileIds : f > total_files => file_kind[f] = "nothing"
    /\ bpc = "precheck"
    /\ skipped_count = 0
    /\ files_to_verify = {}
    /\ files_to_download = << >>
    /\ futures = << >>
    /\ next_future = 1
    /\ future_state = [f \in FileIds |-> "none"]
    /\ task_result = [f \in FileIds |-> "none"]
    /\ loaded = [f \in FileIds |-> {}]
    /\ successful = 0
    /\ failed = << >>
    /\ interrupted = FALSE
    /\ pending_at_interrupt = {}
    /\ skipped_files = {}

\* the batch variables while another part is modelled
BatchIdle ==
    /\ ledger0 = {}
    /\ total_files = 0
    /\ download_max_workers = 1
    /\ file_kind = [f \in FileIds |-> "nothing"]
    /\ bpc = "idle"
    /\ skipped_count = 0
    /\ files_to_verify = {}
    /\ files_to_download = << >>
    /\ futures = << >>
    /\ next_future = 1
    /\ future_state = [f \in FileIds |-> "none"]
    /\ task_result = [f \in FileIds |-> "none"]
    /\ loaded = [f \in FileIds |-> {}]
    /\ successful = 0
    /\ failed = << >>
    /\ interrupted = FALSE
    /\ pending_at_interrupt = {}
    /\ skipped_files = {}

notBatch == << pipeVars, diskVars, runVars, histVars, errVars, range_ok, reliable,
               remote_size, caller, seqVars, planVars, destVars >>

\* Phase 1: the local pre-check of every file
BatchPreCheck ==
    /\ bpc = "precheck"
    /\ skipped_files' = { f \in BatchFiles : BatchPreCheckOf(f) = "Skip" }
    /\ skipped_count' = Cardinality(skipped_files')
    /\ files_to_verify' = { f \in BatchFiles : BatchPreCheckOf(f) = "NeedsVerify" }
    /\ files_to_download' =
          SelectSeq(FileSeq, LAMBDA f : BatchPreCheckOf(f) = "NeedsDownload")
    /\ bpc' = "verify"
    /\ UNCHANGED << total_files, download_max_workers, file_kind, futures, next_future,
                    future_state, task_result, loaded, successful, failed, interrupted,
                    pending_at_interrupt, ledger0, failed_file >>
    /\ UNCHANGED << notBatch, skip_existed_files, strict_file_verification >>

\* Phase 2: verify_file of one file completes and its result is collected
BatchVerify(f) ==
    /\ bpc = "verify"
    /\ f \in files_to_verify
    /\ files_to_verify' = files_to_verify \ {f}
    /\ \E head \in BatchHeads :
          IF VerifyFile(KindSize(file_kind[f]), head) = "complete"
          THEN /\ skipped_count' = skipped_count + 1
               /\ skipped_files' = skipped_files \cup {f}
               /\ UNCHANGED files_to_download
          ELSE /\ files_to_download' = Append(files_to_download, f)
               /\ UNCHANGED << skipped_count, skipped_files >>
    /\ UNCHANGED << total_files, download_max_workers, file_kind, bpc, futures,
                    next_future, future_state, task_result, loaded, successful, failed,
                    interrupted, pending_at_interrupt, ledger0, failed_file >>
    /\ UNCHANGED << notBatch, skip_existed_files, strict_file_verification >>

\* Phase 3 with nothing to download: the early return, successful = total_files
BatchNothingToDownload ==
    /\ bpc = "verify"
    /\ files_to_verify = {}
    /\ files_to_download = << >>
    /\ successful' = total_files
    /\ bpc' = "returned"
    /\ UNCHANGED << total_files, download_max_workers, file_kind, skipped_count,
                    files_to_verify, files_to_download, futures, next_future,
                    future_state, task_result, loaded, failed, interrupted,
                    pending_at_interrupt, skipped_files, ledger0, failed_file >>
    /\ UNCHANGED << notBatch, skip_existed_files, strict_file_verification >>

\* Phase 3: the try block is entered and the pool is created
BatchOpenPool ==
    /\ bpc = "verify"
    /\ files_to_verify = {}
    /\ files_to_download # << >>
    /\ bpc' = "submit"
    /\ UNCHANGED << total_files, download_max_workers, file_kind, skipped_count,
                    files_to_verify, files_to_download, futures, next_future,
                    future_state, task_result, loaded, successful, failed, interrupted,
                    pending_at_interrupt, skipped_files, ledger0, failed_file >>
    /\ UNCHANGED << notBatch, skip_existed_files, strict_file_verification >>

\* executor.submit(download_file, file_url, file_save_path)
BatchSubmit ==
    /\ bpc = "submit"
    /\ Len(futures) < Len(files_to_download)
    /\ LET f == files_to_download[Len(futures) + 1] IN
       /\ futures' = Append(futures, f)
       /\ future_state' = [future_state EXCEPT ![f] = "pending"]
    /\ UNCHANGED << total_files, download_max_workers, file_kind, bpc, skipped_count,
                    files_to_verify, files_to_download, next_future, task_result, loaded,
                    successful, failed, interrupted, pending_at_interrupt,
                    skipped_files, ledger0, failed_file >>
    /\ UNCHANGED << notBatch, skip_existed_files, strict_file_verification >>

\* the submission loop is over: the loop over the futures starts
BatchSubmitted ==
    /\ bpc = "submit"
    /\ Len(futures) = Len(files_to_download)
    /\ bpc' = "collect"
    /\ UNCHANGED << total_files, download_max_workers, file_kind, skipped_count,
                    files_to_verify, files_to_download, futures, next_future,
                    future_state, task_result, loaded, successful, failed, interrupted,
                    pending_at_interrupt, skipped_files, ledger0, failed_file >>
    /\ UNCHANGED << notBatch, skip_existed_files, strict_file_verification >>

\* a free thread of the pool takes the oldest pending task
TaskStart(f) ==
    /\ future_state[f] = "pending"
    /\ Cardinality(Busy) < download_max_workers
    /\ \E i \in 1..Len(futures) :
          /\ futures[i] = f
          /\ \A j \in 1..(i - 1) : future_state[futures[j]] # "pending"
    /\ future_state' = [future_state EXCEPT ![f] = "running"]
    /\ UNCHANGED << total_files, download_max_workers, file_kind, bpc, skipped_count,
                    files_to_verify, files_to_download, futures, next_future,
                    task_result, loaded, successful, failed, interrupted,
                    pending_at_interrupt, skipped_files, ledger0, failed_file >>
    /\ UNCHANGED << notBatch, skip_existed_files, strict_file_verification >>

\* download_file: download_with_resume returns (or raises), and
\* remove_failed_download / add_failed_download reads the ledger
TaskTransferEnds(f) ==
    /\ future_state[f] = "running"
    /\ \E success \in BOOLEAN :
          task_result' = [task_result EXCEPT ![f] = IF success THEN "ok" ELSE "failed"]
    /\ loaded' = [loaded EXCEPT ![f] = load_failed_downloads(failed_file)]
    /\ future_state' = [future_state EXCEPT ![f] = "saving"]
    /\ UNCHANGED << total_files, download_max_workers, file_kind, bpc, skipped_count,
                    files_to_verify, files_to_download, futures, next_future,
                    successful, failed, interrupted, pending_at_interrupt,
                    skipped_files, ledger0, failed_file >>
    /\ UNCHANGED << notBatch, skip_existed_files, strict_file_verification >>

\* download_file: the set read, with the URL discarded or added, is written
\* back by save_failed_downloads; download_file returns
TaskSave(f) ==
    /\ future_state[f] = "saving"
    /\ failed_file' = save_failed_downloads(
          IF task_result[f] = "ok" THEN loaded[f] \ {f} ELSE loaded[f] \cup {f})
    /\ future_state' = [future_state EXCEPT ![f] = "done"]
    /\ loaded' = [loaded EXCEPT ![f] = {}]
    /\ UNCHANGED << total_files, download_max_workers, file_kind, bpc, skipped_count,
                    files_to_verify, files_to_download, futures, next_future,
                    task_result, successful, failed, interrupted,
                    pending_at_interrupt, skipped_files, ledger0 >>
    /\ UNCHANGED << notBatch, skip_existed_files, strict_file_verification >>

\* future.result() of the next future returns: successful += 1 or
\* failed.append(...)
BatchCollect ==
    /\ bpc = "collect"
    /\ next_future <= Len(futures)
    /\ LET f == futures[next_future] IN
       /\ future_state[f] = "done"
       /\ IF task_result[f] = "ok"
          THEN successful' = successful + 1 /\ UNCHANGED failed
          ELSE failed' = Append(failed, f) /\ UNCHANGED successful
    /\ next_future' = next_future + 1
    /\ UNCHANGED << total_files, download_max_workers, file_kind, bpc, skipped_count,
                    files_to_verify, files_to_download, futures, future_state,
                    task_result, loaded, interrupted, pending_at_interrupt,
                    skipped_files, ledger0, failed_file >>
    /\ UNCHANGED << notBatch, skip_existed_files, strict_file_verification >>

\* every result was collected: the with block is left
BatchCollected ==
    /\ bpc = "collect"
    /\ next_future > Len(futures)
    /\ bpc' = "shutdown"
    /\ UNCHANGED << total_files, download_max_workers, file_kind, skipped_count,
                    files_to_verify, files_to_download, futures, next_future,
                    future_state, task_result, loaded, successful, failed, interrupted,
                    pending_at_interrupt, skipped_files, ledger0, failed_file >>
    /\ UNCHANGED << notBatch, skip_existed_files, strict_file_verification >>

\* KeyboardInterrupt before the try block of Phase 3 (pre-check, verification):
\* no handler, process_post raises
BatchInterruptRaises ==
    /\ bpc \in {"precheck", "verify"}
    /\ ~interrupted
    /\ interrupted' = TRUE
    /\ bpc' = "raised"
    /\ UNCHANGED << total_files, download_max_workers, file_kind, skipped_count,
                    files_to_verify, files_to_download, futures, next_future,
                    future_state, task_result, loaded, successful, failed,
                    pending_at_interrupt, skipped_files, ledger0, failed_file >>
    /\ UNCHANGED << notBatch, skip_existed_files, strict_file_verification >>

\* KeyboardInterrupt in the with block outside the loop over the futures
\* (while submitting): the with block is left with the exception, which the
\* outer handler catches after the pool is shut down; no future is cancelled
BatchInterruptSubmitting ==
    /\ bpc = "submit"
    /\ ~interrupted
    /\ interrupted' = TRUE
    /\ pending_at_interrupt' = Pending
    /\ bpc' = "shutdown"
    /\ UNCHANGED << total_files, download_max_workers, file_kind, skipped_count,
                    files_to_verify, files_to_download, futures, next_future,
                    future_state, task_result, loaded, successful, failed,
                    skipped_files, ledger0, failed_file >>
    /\ UNCHANGED << notBatch, skip_existed_files, strict_file_verification >>

\* KeyboardInterrupt inside the loop over the futures: future.cancel() on
\* every future (a pending one is cancelled, the others are not), break
BatchInterruptCollecting ==
    /\ bpc = "collect"
    /\ ~interrupted
    /\ interrupted' = TRUE
    /\ pending_at_interrupt' = Pending
    /\ future_state' = [f \in FileIds |->
          IF future_state[f] = "pending" THEN "cancelled" ELSE future_state[f]]
    /\ bpc' = "shutdown"
    /\ UNCHANGED << total_files, download_max_workers, file_kind, skipped_count,
                    files_to_verify, files_to_download, futures, next_future,
                    task_result, loaded, successful, failed, skipped_files, ledger0,
                    failed_file >>
    /\ UNCHANGED << notBatch, skip_existed_files, strict_file_verification >>

\* the with block left without waiting for the tasks
BatchReturn_NoWait ==
    /\ bpc = "shutdown"
    /\ successful' = WithSkipped(successful, skipped_count)
    /\ bpc' = "returned"
    /\ UNCHANGED << total_files, download_max_workers, file_kind, skipped_count,
                    files_to_verify, files_to_download, futures, next_future,
                    future_state, task_result, loaded, failed, interrupted,
                    pending_at_interrupt, skipped_files, ledger0, failed_file >>
    /\ UNCHANGED << notBatch, skip_existed_files, strict_file_verification >>

\* the with block ends (shutdown(wait=True)) once no task is pending or
\* running; successful += skipped_count; process_post returns
BatchReturn ==
    /\ bpc = "shutdown"
    /\ Pending = {} /\ Busy = {}
    /\ successful' = WithSkipped(successful, skipped_count)
    /\ bpc' = "returned"
    /\ UNCHANGED << total_files, download_max_workers, file_kind, skipped_count,
                    files_to_verify, files_to_download, futures, next_future,
                    future_state, task_result, loaded, failed, interrupted,
                    pending_at_interrupt, skipped_files, ledger0, failed_file >>
    /\ UNCHANGED << notBatch, skip_existed_files, strict_file_verification >>

BatchNext ==
    \/ BatchPreCheck
    \/ \E f \in FileIds : BatchVerify(f)
    \/ BatchNothingToDownload \/ BatchOpenPool \/ BatchSubmit \/ BatchSubmitted
    \/ \E f \in FileIds : TaskStart(f)
    \/ \E f \in FileIds : TaskTransferEnds(f)
    \/ \E f \in FileIds : TaskSave(f)
    \/ BatchCollect \/ BatchCollected
    \/ BatchInterruptRaises \/ BatchInterruptSubmitting \/ BatchInterruptCollecting
    \/ BatchReturn

(***************************************************************************)
(* The ledger functions called one after the other by a single thread:     *)
(* add_failed_download, remove_failed_download, retry_failed_downloads.    *)
(***************************************************************************)
\* calls of add / remove before retry_failed_downloads
MaxCalls == 3

NoCall == [op |-> "none", url |-> BlankUrl, before |-> {}, after |-> {}]

\* still_failed never receiving the URL of a failed retry
StillFailedAfter_Forgotten(still, url, success) == still

\* the two branches of "if success" in retry_failed_downloads, and its
\* except clause: still_failed.add(url) unless the transfer succeeded
StillFailedAfter(still, url, success) ==
    IF success THEN still ELSE still \cup {url}

LedgerInit ==
    /\ failed_file \in { sorted(S) : S \in SUBSET FileIds }
    /\ lpc = "calls"
    /\ calls_made = 0
    /\ retry_args_given \in BOOLEAN
    /\ retry_todo = << >>
    /\ still_failed = {}
    /\ last_call = NoCall
    /\ prev_call = NoCall
    /\ listed = {}
    /\ succeeded = {}

\* the ledger variables while another part is modelled
LedgerIdle ==
    /\ lpc = "idle"
    /\ calls_made = 0
    /\ retry_args_given = TRUE
    /\ retry_todo = << >>
    /\ still_failed = {}
    /\ last_call = NoCall
    /\ prev_call = NoCall
    /\ listed = {}
    /\ succeeded = {}

notLedger == << pipeVars, fileVars, batchVars, planVars, destVars >>

LedgerAdd(url) ==
    /\ lpc = "calls"
    /\ calls_made < MaxCalls
    /\ calls_made' = calls_made + 1
    /\ failed_file' = add_failed_download(failed_file, url)
    /\ prev_call' = last_call
    /\ last_call' = [op |-> "add", url |-> url,
                     before |-> load_failed_downloads(failed_file),
                     after |-> load_failed_downloads(failed_file')]
    /\ UNCHANGED << lpc, retry_args_given, retry_todo, still_failed, listed, succeeded >>
    /\ UNCHANGED notLedger

LedgerRemove(url) ==
    /\ lpc = "calls"
    /\ calls_made < MaxCalls
    /\ calls_made' = calls_made + 1
    /\ failed_file' = remove_failed_download(failed_file, url)
    /\ prev_call' = last_call
    /\ last_call' = [op |-> "remove", url |-> url,
                     before |-> load_failed_downloads(failed_file),
                     after |-> load_failed_downloads(failed_file')]
    /\ UNCHANGED << lpc, retry_args_given, retry_todo, still_failed, listed, succeeded >>
    /\ UNCHANGED notLedger

\* retry_failed_downloads: failed = load_failed_downloads() is empty, return
RetryNothingListed ==
    /\ lpc = "calls"
    /\ load_failed_downloads(failed_file) = {}
    /\ listed' = {}
    /\ lpc' = "returned"
    /\ UNCHANGED << failed_file, calls_made, retry_args_given, retry_todo, still_failed,
                    last_call, prev_call, succeeded >>
    /\ UNCHANGED notLedger

\* retry_failed_downloads called without max_retries or backoff: Config has
\* no attribute download_retries / download_backoff, AttributeError is raised
RetryConfigRaises ==
    /\ lpc = "calls"
    /\ load_failed_downloads(failed_file) # {}
    /\ ~retry_args_given
    /\ listed' = load_failed_downloads(failed_file)
    /\ lpc' = "raised"
    /\ UNCHANGED << failed_file, calls_made, retry_args_given, retry_todo, still_failed,
                    last_call, prev_call, succeeded >>
    /\ UNCHANGED notLedger

\* retry_failed_downloads: the loop over sorted(failed) starts
RetryStart ==
    /\ lpc = "calls"
    /\ load_failed_downloads(failed_file) # {}
    /\ retry_args_given
    /\ listed' = load_failed_downloads(failed_file)
    /\ retry_todo' = sorted(listed')
    /\ lpc' = "retry"
    /\ UNCHANGED << failed_file, calls_made, retry_args_given, still_failed,
                    last_call, prev_call, succeeded >>
    /\ UNCHANGED notLedger

\* one URL is retried: on success remove_failed_download(url), otherwise
\* (failure returned, or exception) still_failed.add(url)
RetryOne ==
    /\ lpc = "retry"
    /\ retry_todo # << >>
    /\ LET url == Head(retry_todo) IN
       \E success \in BOOLEAN :
          /\ failed_file' = IF success THEN remove_failed_download(failed_file, url)
                            ELSE failed_file
          /\ still_failed' = StillFailedAfter(still_failed, url, success)
          /\ succeeded' = IF success THEN succeeded \cup {url} ELSE succeeded
    /\ retry_todo' = Tail(retry_todo)
    /\ UNCHANGED << lpc, calls_made, retry_args_given, last_call, prev_call, listed >>
    /\ UNCHANGED notLedger

\* "Save remaining failures": save_failed_downloads(still_failed), or
\* save_failed_downloads(set()) when it is empty; return
RetrySave ==
    /\ lpc = "retry"
    /\ retry_todo = << >>
    /\ failed_file' = IF still_failed # {} THEN save_failed_downloads(still_failed)
                      ELSE save_failed_downloads({})
    /\ lpc' = "returned"
    /\ UNCHANGED << calls_made, retry_args_given, retry_todo, still_failed, last_call,
                    prev_call, listed, succeeded >>
    /\ UNCHANGED notLedger

LedgerNext ==
    \/ \E url \in Urls : LedgerAdd(url)
    \/ \E url \in Urls : LedgerRemove(url)
    \/ RetryNothingListed \/ RetryConfigRaises \/ RetryStart \/ RetryOne \/ RetrySave

(***************************************************************************)
(* extract_posts_streaming (post_extractor.py), the generator consumed by  *)
(* extraction_worker.  Post ids are numbers compared as the decimal        *)
(* strings they are in the code; the listing holds post_count posts,       *)
(* newest first, served in pages of PageSize.                              *)
(***************************************************************************)
\* largest post_count
MaxTotal == 120

PageSize == 50

\* is_offset: a number of up to 5 digits is an offset
MaxOffsetDigits == 5

\* id of the newest post of the listing; the ids go down from there
NewestId == 100004

\* "start" or "end" in a range
Keyword == -1

RECURSIVE Digits(_)
\* str(n), as the list of its digits
Digits(n) == IF n < 10 THEN << n >> ELSE Append(Digits(n \div 10), n % 10)

RECURSIVE StrLeq(_, _)
\* s <= t for two strings of digits
StrLeq(s, t) ==
    IF s = << >> THEN TRUE
    ELSE IF t = << >> THEN FALSE
    ELSE IF Head(s) # Head(t) THEN Head(s) < Head(t)
    ELSE StrLeq(Tail(s), Tail(t))

\* list(range(start, stop, step)) for step > 0
range(start, stop, step) ==
    LET n == IF stop > start THEN (stop - start + step - 1) \div step ELSE 0
    IN  [i \in 1..n |-> start + (i - 1) * step]

\* is_offset accepting one digit more
is_offset_OneMoreDigit(value) == Len(Digits(value)) <= MaxOffsetDigits + 1

is_offset(value) == Len(Digits(value)) <= MaxOffsetDigits

\* math.ceil(n / d) for d > 0
CeilDiv(n, d) == -((-n) \div d)

\* the offsets of a range with the number of pages rounded down
RangeOffsets_Floor(start, end) ==
    LET num_pages == (end - start) \div PageSize
    IN  [i \in 1..num_pages |-> start + (i - 1) * PageSize]

\* "num_pages = math.ceil((end - start) / 50)",
\* "[start + i * 50 for i in range(num_pages)]"
RangeOffsets(start, end) ==
    LET num_pages == CeilDiv(end - start, PageSize)
    IN  [i \in 1..num_pages |-> start + (i - 1) * PageSize]

\* the plan of mode "all" with the offset equal to the total included
AllOffsets_Inclusive(total_count) == range(0, total_count + 1, PageSize)

\* "if fetch_mode == "all": return list(range(0, total_count, 50))"
AllOffsets(total_count) == range(0, total_count, PageSize)

\* parse_fetch_mode: a list of offsets, the marker of an id or of an id
\* range, or ValueError
parse_fetch_mode(mode, total_count) ==
    CASE mode.kind = "all" ->
            [kind |-> "offsets", list |-> AllOffsets(total_count)]
      [] mode.kind = "single" ->
            IF is_offset(mode.value)
            THEN [kind |-> "offsets", list |-> << mode.value >>]
            ELSE [kind |-> "id", id |-> mode.value]
      [] mode.kind = "range" ->
            LET start == IF mode.start = Keyword THEN 0 ELSE mode.start
                end == IF mode.end = Keyword THEN total_count ELSE mode.end
            IN  IF start <= total_count /\ end <= total_count
                THEN [kind |-> "offsets", list |-> RangeOffsets(start, end)]
                ELSE [kind |-> "idrange", start |-> start, end |-> end]
      [] OTHER -> [kind |-> "ValueError"]

FetchModes ==
    { [kind |-> "all"], [kind |-> "invalid"] }
    \cup { [kind |-> "single", value |-> v] :
             v \in {0, 7, 50, NewestId - 5, NewestId - 1, NewestId - 7, NewestId + 1} }
    \cup { [kind |-> "range", start |-> r[1], end |-> r[2]] :
             r \in { << Keyword, Keyword >>, << 0, 100 >>, << 50, Keyword >>, << 100, 50 >>,
                     << 7, 120 >>, << 0, 60 >>, << NewestId - 1, NewestId - 1 >>,
                     << NewestId - 2, NewestId >>, << NewestId, NewestId - 2 >>,
                     << NewestId - 6, NewestId - 3 >> } }

NoFilter == [kind |-> "none"]

\* id_filter applied to the id of a post
PassesFilter(filter, id) ==
    CASE filter.kind = "none" -> TRUE
      [] filter.kind = "id" -> id = filter.id
      [] OTHER -> /\ StrLeq(Digits(filter.id1), Digits(id))
                  /\ StrLeq(Digits(id), Digits(filter.id2))

\* ids of the posts returned by fetch_posts for an offset
fetch_posts(offset) ==
    LET last == IF offset + PageSize < post_count THEN offset + PageSize ELSE post_count
    IN  [i \in 1..(IF last > offset THEN last - offset ELSE 0) |-> NewestId - (offset + i - 1)]

\* the early stop never taken
BothFound_Never(filter, found) == FALSE

\* "if (id1 in found_ids) and (id2 in found_ids)"
BothFound(filter, found) == filter.id1 \in found /\ filter.id2 \in found

PlanInit ==
    /\ fetch_mode \in FetchModes
    /\ post_count \in 0..MaxTotal
    /\ offsets = [kind |-> "none"]
    /\ id_filter = NoFilter
    /\ ppc = "start"
    /\ next_offset = 1
    /\ page_posts = << >>
    /\ found_ids = {}
    /\ fetched = << >>
    /\ yielded = 0
    /\ end_cause = "none"

\* the generator variables while another part is modelled
PlanIdle ==
    /\ fetch_mode = [kind |-> "all"]
    /\ post_count = 0
    /\ offsets = [kind |-> "none"]
    /\ id_filter = NoFilter
    /\ ppc = "idle"
    /\ next_offset = 1
    /\ page_posts = << >>
    /\ found_ids = {}
    /\ fetched = << >>
    /\ yielded = 0
    /\ end_cause = "none"

notPlan == << download_workers_count, post_queue, unfinished_tasks, download_stats,
              emitted, posts, wpc, wpost, mainpc, sentinel_i, final_stats, enqueued,
              acked, sentinels_put, fileVars, failed_file, batchVars, seqVars,
              destVars >>

\* the generator ends (return or exception): extraction_worker leaves its
\* loop, through except for an exception, and reaches its finally clause
GeneratorEnds(cause) ==
    /\ epc' = "finally"
    /\ ppc' = "done"
    /\ end_cause' = cause

\* the thread of extraction_worker starts and iterates over the generator
PlanEnter ==
    /\ epc = "idle"
    /\ ppc = "start"
    /\ epc' = "next"
    /\ ppc' = "user"
    /\ UNCHANGED << fetch_mode, post_count, offsets, id_filter, next_offset, page_posts,
                    found_ids, fetched, yielded, end_cause >>
    /\ UNCHANGED << notPlan, extraction_done >>

\* fetch_user returns the profile (count = post_count), or raises after its
\* three tries
PlanFetchUser ==
    /\ ppc = "user"
    /\ \/ ppc' = "parse" /\ UNCHANGED << epc, end_cause >>
       \/ GeneratorEnds("user_error")
    /\ UNCHANGED << fetch_mode, post_count, offsets, id_filter, next_offset, page_posts,
                    found_ids, fetched, yielded >>
    /\ UNCHANGED << notPlan, extraction_done >>

\* offsets = parse_fetch_mode(fetch_mode, count); on ValueError print, return
PlanParse ==
    /\ ppc = "parse"
    /\ offsets' = parse_fetch_mode(fetch_mode, post_count)
    /\ IF offsets'.kind = "ValueError"
       THEN GeneratorEnds("parse_error")
       ELSE ppc' = "filter" /\ UNCHANGED << epc, end_cause >>
    /\ UNCHANGED << fetch_mode, post_count, id_filter, next_offset, page_posts,
                    found_ids, fetched, yielded >>
    /\ UNCHANGED << notPlan, extraction_done >>

\* "if isinstance(offsets[0], str) and offsets[0].startswith("id:")":
\* IndexError on an empty list; for an id or an id range the filter is set
\* and every page is planned
PlanFilter ==
    /\ ppc = "filter"
    /\ CASE offsets.kind = "offsets" /\ offsets.list = << >> ->
               /\ GeneratorEnds("index_error")
               /\ UNCHANGED << offsets, id_filter >>
         [] offsets.kind = "offsets" /\ offsets.list # << >> ->
               /\ ppc' = "fetch"
               /\ UNCHANGED << offsets, id_filter, epc, end_cause >>
         [] offsets.kind = "id" ->
               /\ id_filter' = [kind |-> "id", id |-> offsets.id]
               /\ offsets' = [kind |-> "offsets", list |-> range(0, post_count, PageSize)]
               /\ ppc' = "fetch"
               /\ UNCHANGED << epc, end_cause >>
         [] OTHER ->
               /\ id_filter' =
                     [kind |-> "idrange",
                      id1 |-> IF offsets.start <= offsets.end THEN offsets.start
                              ELSE offsets.end,
                      id2 |-> IF offsets.start <= offsets.end THEN offsets.end
                              ELSE offsets.start]
               /\ offsets' = [kind |-> "offsets", list |-> range(0, post_count, PageSize)]
               /\ ppc' = "fetch"
               /\ UNCHANGED << epc, end_cause >>
    /\ UNCHANGED << fetch_mode, post_count, next_offset, page_posts, found_ids, fetched,
                    yielded >>
    /\ UNCHANGED << notPlan, extraction_done >>

\* the next offset of the loop: fetch_posts and process_posts, or an
\* exception of one of them
PlanFetchPage ==
    /\ ppc = "fetch"
    /\ next_offset <= Len(offsets.list)
    /\ fetched' = Append(fetched, offsets.list[next_offset])
    /\ \/ /\ page_posts' = SelectSeq(fetch_posts(offsets.list[next_offset]),
                                     LAMBDA id : PassesFilter(id_filter, id))
          /\ ppc' = "yield"
          /\ UNCHANGED << epc, end_cause >>
       \/ /\ GeneratorEnds("fetch_error")
          /\ UNCHANGED page_posts
    /\ UNCHANGED << fetch_mode, post_count, offsets, id_filter, next_offset, found_ids,
                    yielded >>
    /\ UNCHANGED << notPlan, extraction_done >>

\* "yield post", and what follows when the generator is resumed: with a
\* filter, found_ids.add(post["id"]) and the test of id1 and id2, which are
\* bound only for an id range
PlanYield ==
    /\ ppc = "yield"
    /\ page_posts # << >>
    /\ yielded' = yielded + 1
    /\ page_posts' = Tail(page_posts)
    /\ CASE id_filter.kind = "none" ->
               UNCHANGED << found_ids, ppc, epc, end_cause >>
         [] id_filter.kind = "id" ->
               /\ found_ids' = found_ids \cup {Head(page_posts)}
               /\ GeneratorEnds("unbound_error")
         [] OTHER ->
               /\ found_ids' = found_ids \cup {Head(page_posts)}
               /\ IF BothFound(id_filter, found_ids')
                  THEN GeneratorEnds("early_stop")
                  ELSE UNCHANGED << ppc, epc, end_cause >>
    /\ UNCHANGED << fetch_mode, post_count, offsets, id_filter, next_offset, fetched >>
    /\ UNCHANGED << notPlan, extraction_done >>

\* every post of the page was yielded: next offset
PlanPageDone ==
    /\ ppc = "yield"
    /\ page_posts = << >>
    /\ next_offset' = next_offset + 1
    /\ ppc' = "fetch"
    /\ UNCHANGED << fetch_mode, post_count, offsets, id_filter, page_posts, found_ids,
                    fetched, yielded, end_cause >>
    /\ UNCHANGED << notPlan, epc, extraction_done >>

\* the loop over the offsets is over: the generator returns
PlanExhausted ==
    /\ ppc = "fetch"
    /\ next_offset > Len(offsets.list)
    /\ GeneratorEnds("exhausted")
    /\ UNCHANGED << fetch_mode, post_count, offsets, id_filter, next_offset, page_posts,
                    found_ids, fetched, yielded >>
    /\ UNCHANGED << notPlan, extraction_done >>

PlanNext ==
    \/ PlanEnter \/ PlanFetchUser \/ PlanParse \/ PlanFilter \/ PlanFetchPage
    \/ PlanYield \/ PlanPageDone \/ PlanExhausted \/ ExtractFinally

\* ---------------------------------------------------------------------------
\* Destinations: the download workers take records from post_queue and call
\* process_post, which derives one save path per file of the record.
\* Strings are sequences of one-character strings.
\* ---------------------------------------------------------------------------

\* the longest files list of a record: long enough for two-digit indexes
ManyFiles == 11

DigitChars == << "0", "1", "2", "3", "4", "5", "6", "7", "8", "9" >>

\* str(n) of a non-negative integer, as f"{n}" formats it
str(n) == [i \in 1..Len(Digits(n)) |-> DigitChars[Digits(n)[i] + 1]]

\* os.path.join(a, b) of a relative b
PathJoin(a, b) == a \o << "/" >> \o b

\* what sanitize_filename and sanitize_title return for the names and titles
\* of the records: any string without a path separator
SanitizedNames == { << "a" >>, << "1", "-", "a" >>, << "-", "a" >>, << >> }

SanitizedTitles == { << >>, << "2" >>, << "a" >> }

\* posts_folder of the run
BaseFolder == << "p" >>

\* the records of the listing: the ids are distinct decimal numbers; names
\* are the sanitized names of the files
ListedPosts ==
    { [id |-> 1, title |-> << "2" >>, names |-> << << "a" >>, << "a" >> >>],
      [id |-> 12, title |-> << >>,
       names |-> << << "1", "-", "a" >>, << "a" >>, << "-", "a" >> >>],
      [id |-> 2, title |-> << "a" >>,
       names |-> [i \in 1..ManyFiles |-> IF i = 1 THEN << "1", "-", "a" >>
                                                 ELSE << "a" >>]],
      [id |-> 11, title |-> << "a" >>, names |-> << << >>, << "a" >> >>] }

DestWorkers == 1..MaxWorkers

NoRecord == [id |-> 0, title |-> << >>, names |-> << >>]

\* folder_name of a post
folder_name(post) ==
    IF post_folder_name = "title" /\ post.title # << >>
    THEN str(post.id) \o << "_" >> \o post.title
    ELSE str(post.id)

new_filename_NoIndex(file_index, sanitized_name) == sanitized_name

\* new_filename of the file at file_index (from 1) of a post
new_filename(file_index, sanitized_name) ==
    str(file_index) \o << "-" >> \o sanitized_name

\* file_save_path of the file at file_index of a post
file_save_path(post, file_index) ==
    PathJoin(PathJoin(BaseFolder, folder_name(post)),
             new_filename(file_index, post.names[file_index]))

DestInit ==
    /\ post_folder_name \in {"id", "title"}
    /\ listed_posts \in (SUBSET ListedPosts) \ {{}}
    /\ dpc = [w \in DestWorkers |-> "get"]
    /\ dpost = [w \in DestWorkers |-> NoRecord]
    /\ downloads = [w \in DestWorkers |-> << >>]
    /\ dispatched = [w \in DestWorkers |-> {}]

\* the destination variables while another part is modelled
DestIdle ==
    /\ post_folder_name = "id"
    /\ listed_posts = {}
    /\ dpc = [w \in DestWorkers |-> "idle"]
    /\ dpost = [w \in DestWorkers |-> NoRecord]
    /\ downloads = [w \in DestWorkers |-> << >>]
    /\ dispatched = [w \in DestWorkers |-> {}]

notDest == << pipeVars, fileVars, failed_file, batchVars, seqVars, planVars >>

\* post_queue.get: one worker takes a record, which leaves the queue
DestGet(w) ==
    /\ dpc[w] = "get"
    /\ \E post \in listed_posts :
          /\ listed_posts' = listed_posts \ {post}
          /\ dpost' = [dpost EXCEPT ![w] = post]
    /\ dpc' = [dpc EXCEPT ![w] = "prepare"]
    /\ UNCHANGED << post_folder_name, downloads, dispatched, notDest >>

\* process_post up to the end of its loop over post["files"]
DestPrepare(w) ==
    /\ dpc[w] = "prepare"
    /\ downloads' = [downloads EXCEPT ![w] =
                        [i \in 1..Len(dpost[w].names) |-> file_save_path(dpost[w], i)]]
    /\ dpc' = [dpc EXCEPT ![w] = "precheck"]
    /\ UNCHANGED << post_folder_name, listed_posts, dpost, dispatched, notDest >>

\* what the pre-check and the verification may keep of n downloads, by what
\* is on disk and what the server answers: all, the last, the first and the
\* last, every other one, all but the first
KeptOf(n) ==
    { 1..n, {n}, {1, n}, { i \in 1..n : i % 2 = 1 }, 2..n } \ {{}}

\* the kept downloads are submitted to the pool
DestDispatch(w) ==
    /\ dpc[w] = "precheck"
    /\ \E keep \in KeptOf(Len(downloads[w])) :
          dispatched' = [dispatched EXCEPT ![w] = keep]
    /\ dpc' = [dpc EXCEPT ![w] = "pool"]
    /\ UNCHANGED << post_folder_name, listed_posts, dpost, downloads, notDest >>

\* nothing is kept: process_post returns without a pool
DestAllSkipped(w) ==
    /\ dpc[w] = "precheck"
    /\ dpost' = [dpost EXCEPT ![w] = NoRecord]
    /\ downloads' = [downloads EXCEPT ![w] = << >>]
    /\ dpc' = [dpc EXCEPT ![w] = "get"]
    /\ UNCHANGED << post_folder_name, listed_posts, dispatched, notDest >>

\* the pool has shut down: process_post returns and the worker loops
DestReturn(w) ==
    /\ dpc[w] = "pool"
    /\ dispatched' = [dispatched EXCEPT ![w] = {}]
    /\ dpost' = [dpost EXCEPT ![w] = NoRecord]
    /\ downloads' = [downloads EXCEPT ![w] = << >>]
    /\ dpc' = [dpc EXCEPT ![w] = "get"]
    /\ UNCHANGED << post_folder_name, listed_posts, notDest >>

DestNext ==
    \/ \E w \in DestWorkers : DestGet(w)
    \/ \E w \in DestWorkers : DestPrepare(w)
    \/ \E w \in DestWorkers : DestDispatch(w)
    \/ \E w \in DestWorkers : DestAllSkipped(w)
    \/ \E w \in DestWorkers : DestReturn(w)

DestStart ==
    /\ PipeIdle /\ FileIdle /\ failed_file = << >> /\ BatchIdle /\ LedgerIdle /\ PlanIdle
    /\ DestInit

DestSpec == DestStart /\ [][DestNext]_vars

TransferInit ==
    /\ PipeIdle /\ FileInit /\ failed_file = << >> /\ BatchIdle /\ LedgerIdle /\ PlanIdle
    /\ DestIdle

TransferNext ==
    \/ FilePreCheck \/ FileVerifyComplete \/ FileVerifyStale \/ FileVerifyStaleKept
    \/ FileVerifyUnknown
    \/ XferProbeComplete \/ XferProbeStale \/ XferProbeResume
    \/ XferGetOk \/ XferGet416 \/ XferGetFails
    \/ XferWriteChunk \/ XferStreamFails \/ XferFinalize \/ XferFinalizeFails
    \/ FileRerun

TransferSpec == TransferInit /\ [][TransferNext]_vars

\* the file-level variables other than the configuration, at rest
FileRest ==
    /\ range_ok = TRUE
    /\ reliable = TRUE
    /\ remote_size = 0
    /\ caller = "process_post"
    /\ final_exists = FALSE
    /\ final_data = << >>
    /\ temp_exists = FALSE
    /\ temp_data = << >>
    /\ fpc = "idle"
    /\ gate = "none"
    /\ chk_size = 0
    /\ attempt = 0
    /\ existing_size = 0
    /\ body = << >>
    /\ file_result = "none"
    /\ gets = 0
    /\ ranges = << >>
    /\ received = 0
    /\ start_temp = NoSize
    /\ start_final = NoSize
    /\ matched = NoSize
    /\ last_head = NoSize
    /\ heads = 0
    /\ runs = 1
    /\ file_error = NoError
    /\ last_error = NoError
    /\ slept = << >>

BatchStart ==
    /\ PipeIdle /\ FileRest
    /\ skip_existed_files \in BOOLEAN
    \* strict_file_verification is read only when skip_existed_files is set
    /\ strict_file_verification \in (IF skip_existed_files THEN BOOLEAN ELSE {FALSE})
    /\ BatchInit
    /\ LedgerIdle /\ PlanIdle /\ DestIdle

BatchSpec == BatchStart /\ [][BatchNext]_vars

LedgerStart == PipeIdle /\ FileIdle /\ BatchIdle /\ LedgerInit /\ PlanIdle /\ DestIdle

LedgerSpec == LedgerStart /\ [][LedgerNext]_vars

PlanStart ==
    /\ PipeIdle /\ FileIdle /\ failed_file = << >> /\ BatchIdle /\ LedgerIdle /\ PlanInit
    /\ DestIdle

PlanSpec == PlanStart /\ [][PlanNext]_vars

Init ==
    /\ PipeInit /\ FileIdle /\ failed_file = << >> /\ BatchIdle /\ LedgerIdle /\ PlanIdle
    /\ DestIdle

Producer == ExtractYield \/ ExtractEnd \/ PutPost \/ PutTimeout \/ ExtractFinally

Worker(w) ==
    \/ WorkerGetPost(w) \/ WorkerGetSentinel(w) \/ WorkerGetEmpty(w)
    \/ WorkerCheckDone(w) \/ WorkerProcess(w) \/ WorkerTaskDone(w)

Main ==
    \/ MainMonitorExit \/ MainJoinExtract \/ MainJoinQueue \/ MainPutSentinel
    \/ MainSentinelTimeout \/ MainSentinelsPut \/ MainJoinWorkers

Next ==
    \/ ExtractYield \/ ExtractEnd \/ PutPost \/ PutTimeout \/ ExtractFinally
    \/ \E w \in WorkerIds : WorkerGetPost(w)
    \/ \E w \in WorkerIds : WorkerGetSentinel(w)
    \/ \E w \in WorkerIds : WorkerGetEmpty(w)
    \/ \E w \in WorkerIds : WorkerCheckDone(w)
    \/ \E w \in WorkerIds : WorkerProcess(w)
    \/ \E w \in WorkerIds : WorkerTaskDone(w)
    \/ MainMonitorExit \/ MainJoinExtract \/ MainJoinQueue \/ MainPutSentinel
    \/ MainSentinelTimeout \/ MainSentinelsPut \/ MainJoinWorkers

Spec == Init /\ [][Next]_vars

\* every thread is scheduled again and again
FairSpec ==
    /\ Init /\ [][Next]_vars
    /\ WF_vars(Producer)
    /\ \A w \in WorkerIds : WF_vars(Worker(w))
    /\ WF_vars(Main)

(***************************************************************************)
(* Properties of the pipeline                                              *)
(***************************************************************************)
IsRecord(item) == item # Sentinel

NoRecordIn(q) == \A i \in 1..Len(q) : ~IsRecord(q[i])

AllWorkersExited == \A w \in Workers : wpc[w] = "exited"

\* C1: every record the producer has yielded has been put on the queue, except
\* the one it is putting right now: the producer never goes on to the next
\* record leaving one un-enqueued.
C1_EveryRecordEnqueued ==
    \A p \in 1..emitted : p \in enqueued \/ (epc = "put" /\ p = emitted)

\* C2: a worker that leaves its loop on the Empty path (the step from the
\* flag check to the exit) does so in a state where the queue holds no record
\* and extraction_done is set.
C2_EmptyExitOnlyWhenDrained ==
    [][ \A w \in WorkerIds :
          (wpc[w] = "empty" /\ wpc'[w] = "exited")
              => (extraction_done /\ NoRecordIn(post_queue)) ]_vars

\* C3: under fair scheduling every run reaches Done: the coordinator returns,
\* every enqueued record has been acknowledged and every worker has exited.
C3_ReachesDone ==
    <>(mainpc = "done" /\ acked = enqueued /\ AllWorkersExited)

MarkersStarted == sentinels_put > 0 \/ mainpc \in {"sentinels", "join_workers", "done"}

MarkersOnlyAfterDrain ==
    MarkersStarted => (epc = "ended" /\ extraction_done /\ acked = enqueued)

NoRecordBehindMarker ==
    \A i, j \in 1..Len(post_queue) :
        (i < j /\ ~IsRecord(post_queue[i])) => ~IsRecord(post_queue[j])

SentinelLoopOver == mainpc \in {"join_workers", "done"}

\* C4 as stated: markers only after the producer ended and every enqueued
\* record was acknowledged, exactly one marker per worker, no record behind
\* a marker.
C4_ExactlyOneMarkerPerWorker ==
    /\ MarkersOnlyAfterDrain
    /\ NoRecordBehindMarker
    /\ SentinelLoopOver => sentinels_put = download_workers_count

\* C4 (amended): markers only after the producer ended and every enqueued
\* record was acknowledged; at most one marker per worker, a marker whose put
\* times out on the full queue being abandoned, and exactly one per worker
\* when the workers are no more than the queue capacity; no record is ever
\* behind a marker.
C4_MarkersAfterDrain ==
    /\ MarkersOnlyAfterDrain
    /\ NoRecordBehindMarker
    /\ sentinels_put <= download_workers_count
    /\ (SentinelLoopOver /\ download_workers_count <= QueueCap)
           => sentinels_put = download_workers_count

\* a run that processed records and then put one marker for each worker
C4_Witness ==
    /\ mainpc = "done"
    /\ Cardinality(acked) >= 2
    /\ sentinels_put = download_workers_count

\* C5: the queue never holds more than its capacity, and while the producer
\* waits in put on the full queue and nothing is dequeued, it stays there:
\* it pushes nothing and extracts no further record.
C5_BoundedAndProducerStalls ==
    /\ [](Len(post_queue) <= QueueCap)
    /\ [][ (epc = "put" /\ Len(post_queue) >= QueueCap /\ post_queue' = post_queue)
              => (epc' = "put" /\ emitted' = emitted) ]_vars

\* the outcome of one record, as the counters name it
RecordOutcome(post) ==
    IF post.files > 0 /\ post.local + post.parts = post.files THEN "skipped"
    ELSE IF post.raises \/ post.bad > 0 THEN "failed"
    ELSE "downloaded"

CountOutcome(S, o) == Cardinality({p \in S : RecordOutcome(posts[p]) = o})

\* 3 records of 2 files each, exactly 1 file complete on disk, no partial,
\* every transfer succeeds
C6_Scenario ==
    /\ emitted = 3
    /\ \A p \in 1..3 : /\ posts[p].files = 2 /\ posts[p].parts = 0
                        /\ posts[p].bad = 0 /\ ~posts[p].raises
    /\ posts[1].local + posts[2].local + posts[3].local = 1

\* C6 as stated: in the scenario the final counters count files:
\* extracted=3, downloaded=5, skipped=1, failed=0.
C6_StatsCountFiles ==
    (mainpc = "done" /\ C6_Scenario)
        => final_stats = [total |-> 3, downloaded |-> 5, skipped |-> 1, failed |-> 0]

\* C6 (amended): after the run drains, total is the number of records
\* yielded and downloaded, skipped, failed count the dequeued records (not
\* files) by outcome.
C6_StatsCountRecords ==
    mainpc = "done"
        => final_stats = [total      |-> emitted,
                          downloaded |-> CountOutcome(acked, "downloaded"),
                          skipped    |-> CountOutcome(acked, "skipped"),
                          failed     |-> CountOutcome(acked, "failed")]

\* the scenario of C6 drained with every record enqueued: 3, 3, 0, 0
C6_Witness ==
    /\ mainpc = "done"
    /\ C6_Scenario
    /\ enqueued = 1..3
    /\ final_stats = [total |-> 3, downloaded |-> 3, skipped |-> 0, failed |-> 0]

(***************************************************************************)
(* Properties of the gate and of the transfer engine                       *)
(***************************************************************************)
Returned == fpc = "end"

\* download_with_resume was entered with a partial of k bytes, 0 < k < total,
\* and no final file, against a server that honours ranges and answers
ResumeCase ==
    /\ start_temp > 0 /\ start_temp < remote_size
    /\ start_final = NoSize
    /\ range_ok /\ reliable

\* C7: in the resume case download_with_resume returns success after exactly
\* one GET, which carries Range: bytes=k-; only the remaining total - k bytes
\* are written and the final file is the remote file, byte for byte.
C7_ResumeOneRangedGet ==
    (Returned /\ ResumeCase)
        => /\ file_result = "ok"
           /\ gets = 1
           /\ ranges = << start_temp >>
           /\ received = remote_size - start_temp
           /\ final_exists /\ final_data = RemoteData
           /\ ~temp_exists

C7_Witness ==
    /\ Returned /\ ResumeCase
    /\ file_result = "ok" /\ gets = 1 /\ Len(final_data) = remote_size

\* a ranged GET of this run was answered by a server that ignores ranges
RangeIgnored == ~range_ok /\ \E i \in 1..Len(ranges) : ranges[i] # NoRange

\* C8: when the ranged GET is answered 200 with the full body, the partial is
\* emptied and writing starts at offset zero, and a successful return leaves
\* the final file equal to the remote file: its length is that of a fresh
\* download, never k plus the full length.
C8_RangeIgnoredRestartsFromZero ==
    /\ []((Returned /\ file_result = "ok" /\ RangeIgnored)
            => (final_exists /\ final_data = RemoteData
                /\ Len(final_data) = remote_size))
    /\ [][ (fpc = "get" /\ fpc' = "stream" /\ existing_size > 0 /\ ~range_ok)
             => (existing_size' = 0 /\ temp_data' = << >>) ]_vars

C8_Witness ==
    /\ Returned /\ file_result = "ok" /\ RangeIgnored
    /\ start_temp > 0 /\ remote_size > 0
    /\ Len(final_data) = remote_size

\* C9 as stated: whenever a HEAD probe returns the size of the existing final
\* file, the gate returns Skip and no GET is issued for the file.
C9_GateSkipsWhenSizesMatch ==
    matched # NoSize => (gate = "Skip" /\ gets = 0)

\* C9 (amended): whenever a HEAD probe returns the size (> 0) of the existing
\* final file, the processing of the file ends at that probe as successful and
\* the file is left as it is: the gate returns Skip when the probe is the one
\* of verify_file, and download_with_resume returns success at once when the
\* gate had classified the file NeedsDownload; no GET follows the probe, and
\* none is issued at all when no request fails.
C9_NoTransferWhenSizesMatch ==
    matched > 0
        => /\ Returned
           /\ file_result \in {"skipped", "ok"}
           /\ file_result = "skipped" <=> gate = "Skip"
           /\ final_exists /\ Len(final_data) = matched
           /\ reliable => gets = 0

\* the engine, not the gate, finds the final file complete beside a partial
C9_Witness ==
    /\ matched > 0
    /\ gate = "NeedsDownload" /\ file_result = "ok" /\ gets = 0
    /\ start_temp # NoSize

\* C10: whenever download_with_resume returns success the final file exists
\* and no partial file remains for the destination.
C10_SuccessLeavesNoPartial ==
    (Returned /\ file_result = "ok") => (final_exists /\ ~temp_exists)

(***************************************************************************)
(* Properties of the skip shortcut of download_worker                      *)
(***************************************************************************)
\* C11: a record one of whose files is represented on disk by a partial is
\* never counted as skipped by the download worker that processes it.
C11_PartialNeverSkipped ==
    [][ \A w \in WorkerIds :
          (wpc[w] = "process" /\ wpc'[w] = "task_done" /\ posts[wpost[w]].parts > 0)
              => download_stats'.skipped = download_stats.skipped ]_vars

(***************************************************************************)
(* Properties of the failure return of download_with_resume                *)
(***************************************************************************)
\* C12 as stated: download_with_resume returns failure only after MaxRetries
\* failed attempts, and the error it returns is the error of the last failed
\* attempt.
C12_FailsAfterMaxRetriesWithLastError ==
    (Returned /\ file_result = "failed")
        => (attempt = MaxRetries /\ file_error = last_error)

\* C12 (amended): download_with_resume returns failure either at once, with
\* "Failed to finalize download", when the downloaded partial can be neither
\* renamed nor copied to the final path, or after MaxRetries failed attempts;
\* in the latter case the error returned is the error raised by the last
\* failed attempt, and "Unknown error" when that attempt was answered 416.
C12_FailsOnFinalizeOrAfterMaxRetries ==
    (Returned /\ file_result = "failed")
        => \/ file_error = FinalizeError
           \/ /\ attempt = MaxRetries
              /\ last_error # NoError
              /\ file_error = IF last_error = Http416 THEN UnknownError ELSE last_error

\* three failed attempts of different kinds, the last one a broken stream
C12_Witness ==
    /\ Returned /\ file_result = "failed"
    /\ attempt = MaxRetries
    /\ last_error = StreamError /\ file_error = StreamError
    /\ gets = MaxRetries

(***************************************************************************)
(* Properties of the failure ledger under concurrent download workers      *)
(***************************************************************************)
\* the tasks of the batch that called the ledger and returned
LedgerCalls == { f \in FileIds : future_state[f] = "done" }

\* add_failed_download(f) after a failed transfer, remove_failed_download(f)
\* after a successful one, applied to a set
ApplyCall(S, f) == IF task_result[f] = "ok" THEN S \ {f} ELSE S \cup {f}

RECURSIVE SerialOutcomes(_, _)
\* the sets left by the calls of C applied to S one after the other, in
\* every order
SerialOutcomes(S, C) ==
    IF C = {} THEN {S}
    ELSE UNION { SerialOutcomes(ApplyCall(S, c), C \ {c}) : c \in C }

NoCallInProgress == \A f \in FileIds : future_state[f] # "saving"

\* C13: when several download workers call add_failed_download /
\* remove_failed_download concurrently, no update is lost: once all calls
\* have returned, the persisted set is the result of applying those calls in
\* some sequential order.
C13_NoLedgerUpdateLost ==
    NoCallInProgress
        => load_failed_downloads(failed_file) \in SerialOutcomes(ledger0, LedgerCalls)

(***************************************************************************)
(* Properties of process_post                                              *)
(***************************************************************************)
BatchReturned == bpc = "returned"

\* the files whose success, or failure, was collected by the orchestrator
CollectedOk ==
    { futures[i] : i \in { j \in 1..(next_future - 1) : task_result[futures[j]] = "ok" } }

CollectedFailed == InSeq(failed)

\* C16: within one batch a file whose transfer fails is recorded in the
\* failure ledger and in the failed list of the batch, and every sibling is
\* still attempted and gets its own outcome.
C16_FailureRecordedSiblingsAttempted ==
    (BatchReturned /\ ~interrupted)
        => \A f \in InSeq(files_to_download) :
              /\ future_state[f] = "done"
              /\ task_result[f] \in {"ok", "failed"}
              /\ task_result[f] = "failed"
                    => /\ f \in load_failed_downloads(failed_file)
                       /\ f \in CollectedFailed

C18_InterruptCancelsPendingAndReturns ==
    interrupted
        => /\ bpc # "raised"
           /\ \A f \in pending_at_interrupt : future_state[f] \in {"pending", "cancelled"}
           /\ BatchReturned
                 => \A f \in pending_at_interrupt : future_state[f] = "cancelled"

(***************************************************************************)
(* Properties of the ledger functions called one after the other           *)
(***************************************************************************)
\* C14: for every ledger content S and URL x, add(x) followed by add(x)
\* leaves the persisted set equal to the set after one add(x), and
\* remove(x) on a set that does not contain x, applied once or twice, leaves
\* the persisted set unchanged.
C14_AddAndRemoveIdempotent ==
    /\ (last_call.op = "add" /\ prev_call.op = "add" /\ last_call.url = prev_call.url)
          => last_call.after = prev_call.after
    /\ (last_call.op = "remove" /\ last_call.url \notin last_call.before)
          => last_call.after = last_call.before
    /\ (last_call.op = "remove" /\ prev_call.op = "remove"
        /\ last_call.url = prev_call.url /\ prev_call.url \notin prev_call.before)
          => last_call.after = prev_call.before

\* a URL is added twice to a ledger listing another URL
C14_Witness ==
    /\ last_call.op = "add" /\ prev_call.op = "add" /\ last_call.url = prev_call.url
    /\ prev_call.before # {} /\ prev_call.url \notin prev_call.before
    /\ last_call.after = prev_call.before \cup {last_call.url}

\* C15: after retry_failed_downloads returns, the persisted ledger is exactly
\* the set of the initially listed URLs whose retry transfer did not succeed.
C15_RetryLeavesTheFailures ==
    lpc = "returned"
        => /\ load_failed_downloads(failed_file) = listed \ succeeded
           /\ load_failed_downloads(failed_file) = still_failed
           /\ succeeded \cup still_failed = listed

C15_Witness ==
    /\ lpc = "returned"
    /\ succeeded # {} /\ still_failed # {}
    /\ load_failed_downloads(failed_file) = still_failed

(***************************************************************************)
(* Properties of the offset plan and of the producer                       *)
(***************************************************************************)
Planned == offsets.kind = "offsets"

\* C19: for fetch mode "all" the plan is exactly the offsets 0, 50, 100, ...
\* strictly below the total, in increasing order ([0, 50, 100] for a total
\* of 120); for a total of 0 the plan is empty and the producer issues no
\* listing fetch.
C19_AllPlanIsEveryPageBelowTotal ==
    (fetch_mode.kind = "all" /\ Planned)
        => LET plan == offsets.list IN
           /\ \A i \in 1..Len(plan) :
                 /\ plan[i] % PageSize = 0
                 /\ plan[i] >= 0 /\ plan[i] < post_count
                 /\ i > 1 => plan[i - 1] < plan[i]
           /\ \A k \in 0..(post_count - 1) :
                 k % PageSize = 0 => \E i \in 1..Len(plan) : plan[i] = k
           /\ post_count = 120 => plan = << 0, 50, 100 >>
           /\ post_count = 0 => (plan = << >> /\ fetched = << >>)
           /\ Len(fetched) <= Len(plan)
           /\ \A i \in 1..Len(fetched) : fetched[i] = plan[i]

\* the three pages of a listing of 120 posts were fetched
C19_Witness ==
    /\ fetch_mode.kind = "all" /\ post_count = 120
    /\ Planned /\ offsets.list = << 0, 50, 100 >>
    /\ fetched = << 0, 50, 100 >>
    /\ yielded = 120
    /\ end_cause = "exhausted"

\* C20: the extraction-complete flag is set on every way the producer task
\* can end: no state is reachable in which the producer task has ended and
\* the flag is unset.
C20_FlagSetWheneverProducerEnded ==
    /\ epc = "ended" => extraction_done
    /\ end_cause # "none" => epc \in {"finally", "ended"}

\* the producer ended because a fetch raised after the first page
C20_Witness ==
    /\ epc = "ended" /\ extraction_done
    /\ end_cause = "fetch_error"
    /\ Len(fetched) = 2 /\ yielded = PageSize

(***************************************************************************)
(* Properties of the termination markers                                   *)
(***************************************************************************)
\* the counters of processed work
Processed(stats) == << stats.downloaded, stats.skipped, stats.failed >>

\* C21: dequeuing a termination marker changes none of the counters total,
\* downloaded, skipped, failed and issues no task_done; only real records
\* are acknowledged and counted.
C21_MarkerNeitherCountedNorAcked ==
    /\ [][ \A w \in WorkerIds :
             (wpc[w] = "get" /\ wpc'[w] = "exited")
                 => /\ Head(post_queue) = Sentinel
                    /\ download_stats' = download_stats
                    /\ unfinished_tasks' = unfinished_tasks
                    /\ acked' = acked ]_vars
    /\ [][ (unfinished_tasks' < unfinished_tasks \/ acked' # acked)
             => \E w \in WorkerIds :
                   /\ wpc[w] = "task_done" /\ IsRecord(wpost[w])
                   /\ acked' = acked \cup {wpost[w]}
                   /\ unfinished_tasks' = unfinished_tasks - 1 ]_vars
    /\ [][ Processed(download_stats') # Processed(download_stats)
             => \E w \in WorkerIds : wpc[w] = "process" /\ IsRecord(wpost[w]) ]_vars

\* both workers left on a marker after two records were processed
C21_Witness ==
    /\ sentinels_put = download_workers_count
    /\ download_workers_count = MaxWorkers
    /\ post_queue = << >>
    /\ \A w \in Workers : wpc[w] = "exited"
    /\ Cardinality(acked) = 2
    /\ download_stats.downloaded + download_stats.skipped + download_stats.failed = 2

(***************************************************************************)
(* Properties of the gate in front of download_with_resume                 *)
(***************************************************************************)
\* the pre-check has just dispatched the file to download_with_resume
Dispatched == fpc = "probe" /\ attempt = 0 /\ gets = 0

\* C22: with skip-existing enabled, the pre-check classifies a candidate
\* whose partial exists NeedsDownload and dispatches it to
\* download_with_resume, whatever the final file is and whatever the strict
\* flag is.
C22_PartialIsDispatched ==
    [][ (fpc = "precheck" /\ skip_existed_files /\ temp_exists)
          => /\ gate' = "NeedsDownload"
             /\ fpc' = "probe" /\ attempt' = 0
             /\ file_result' = "none"
             /\ UNCHANGED diskVars ]_vars

\* a partial beside a final file of the remote size, strict flag set
C22_Witness ==
    /\ Dispatched /\ gate = "NeedsDownload"
    /\ skip_existed_files /\ strict_file_verification
    /\ start_temp # NoSize
    /\ remote_size > 0 /\ start_final = remote_size

\* C23: with skip-existing enabled and strict verification disabled, a
\* candidate with no partial and a final file of size > 0 is classified Skip,
\* and neither a HEAD nor a GET request is issued for it.
C23_NonEmptyFinalSkippedUnprobed ==
    /\ [][ (/\ fpc = "precheck"
            /\ skip_existed_files /\ ~strict_file_verification
            /\ ~temp_exists /\ final_exists /\ Len(final_data) > 0)
             => /\ gate' = "Skip"
                /\ fpc' = "end" /\ file_result' = "skipped"
                /\ heads' = 0 /\ gets' = 0
                /\ UNCHANGED diskVars ]_vars
    /\ [](file_result = "skipped" /\ ~strict_file_verification
             => heads = 0 /\ gets = 0)

\* a final file of another size than the remote one is skipped unprobed
C23_Witness ==
    /\ fpc = "end" /\ gate = "Skip" /\ file_result = "skipped"
    /\ skip_existed_files /\ ~strict_file_verification
    /\ final_exists /\ Len(final_data) > 0 /\ Len(final_data) # remote_size
    /\ ~temp_exists
    /\ heads = 0 /\ gets = 0

\* C24: with strict verification enabled, a candidate with a non-empty final
\* file is skipped only if a HEAD request succeeded and reported a
\* content-length equal to the local size; a HEAD failure, a missing length
\* or a size mismatch classifies it NeedsDownload.
C24_StrictSkipNeedsMatchingHead ==
    /\ [][ (fpc = "verify" /\ strict_file_verification /\ chk_size > 0)
             => IF last_head' # NoSize /\ last_head' = chk_size
                THEN gate' = "Skip" /\ fpc' = "end" /\ file_result' = "skipped"
                ELSE gate' = "NeedsDownload" /\ fpc' = "probe" /\ file_result' = "none" ]_vars
    /\ [](strict_file_verification /\ gate = "Skip"
             => /\ chk_size > 0
                /\ heads = 1 /\ last_head = chk_size
                /\ gets = 0)

\* the final file has the remote size, the HEAD of verify_file fails, and the
\* file is dispatched
C24_Witness ==
    /\ Dispatched /\ gate = "NeedsDownload"
    /\ skip_existed_files /\ strict_file_verification
    /\ chk_size > 0 /\ chk_size = remote_size
    /\ heads = 1 /\ last_head = NoSize

\* verify_file has just found the remote size different from the local one
StaleDispatched ==
    /\ Dispatched /\ gate = "NeedsDownload"
    /\ heads = 1 /\ last_head > 0 /\ last_head # chk_size

\* C25: when a NeedsVerify candidate resolves to NeedsDownload because the
\* remote content-length differs from the local size, the stale final file
\* has been moved to the partial (or deleted) before the transfer is
\* dispatched: no final file exists when download_with_resume starts on it.
C25_StaleFinalGoneBeforeTransfer ==
    StaleDispatched => ~final_exists /\ start_final = NoSize

(***************************************************************************)
(* Properties of the attempts of download_with_resume                      *)
(***************************************************************************)
\* a GET is answered 416: the only answer on which the partial is removed
\* and not reopened
Answered416 == fpc = "get" /\ temp_exists /\ ~temp_exists'

\* the request about to be issued follows an attempt that was answered 416
RestartedGet == fpc = "get" /\ last_error = Http416

\* C26: when the server answers 416 to a ranged GET, the partial is deleted
\* and the next request of the same transfer is a plain GET without a Range
\* header, writing from offset zero.
C26_After416PlainGetFromZero ==
    /\ [][ Answered416 => RangeStart(existing_size) # NoRange /\ last_error' = Http416 ]_vars
    /\ [](RestartedGet => RangeStart(existing_size) = NoRange /\ OpenMode(existing_size) = "wb")

\* C27: a 416 answer forces the restart from zero immediately: no backoff
\* wait is taken before the restarted request, and the restart continues the
\* same attempt rather than consuming one of the max_retries attempts.
C27_RestartWithoutWaitOrAttempt ==
    [][ Answered416 => /\ slept' = slept
                       /\ attempt' = attempt
                       /\ fpc' = "probe" ]_vars

\* attempt number attempt fails by an exception (request, HTTP status >= 400
\* or stream) and attempts remain
FailedWithAttemptsLeft ==
    /\ fpc \in {"get", "stream"}
    /\ attempt' = attempt + 1
    /\ last_error' \in {GetError, StreamError}
    /\ fpc' = "probe"

\* C28: after the n-th failed attempt (n counted from 0) caused by a network,
\* IO or HTTP status >= 400 failure, with attempts remaining, the wait before
\* the next attempt is backoff_factor * 2^n seconds; n is the value of the
\* attempt counter during that attempt.
C28_WaitDoublesWithAttempt ==
    [][ FailedWithAttemptsLeft
          => slept' = Append(slept, BackoffFactor * (2 ^ attempt)) ]_vars

\* two failed attempts: waits of backoff_factor and of twice that
C28_Witness ==
    /\ fpc = "probe" /\ attempt = 2
    /\ last_error = StreamError
    /\ slept = << BackoffFactor, 2 * BackoffFactor >>

\* s is an initial segment of t
IsPrefix(s, t) == Len(s) <= Len(t) /\ \A i \in 1..Len(s) : s[i] = t[i]

\* the bytes of the partial are lost in this step
PartialLost == temp_exists /\ (~temp_exists' \/ ~IsPrefix(temp_data, temp_data'))

\* the server ignored the Range: the partial is dropped and rewritten
RangeIgnoredDiscard == fpc = "get" /\ fpc' = "stream" /\ existing_size > 0 /\ existing_size' = 0

\* the partial becomes the final file
RenamedToFinal ==
    fpc = "stream" /\ file_result' = "ok" /\ final_exists' /\ final_data' = temp_data

\* C29: the partial is removed only by the 416 discard, the range-ignored
\* discard, or the final rename to the final path: a failed attempt and the
\* exhaustion of max_retries leave the bytes already written to the partial
\* on disk, and the next attempt or the next run resumes from that length.
C29_PartialKeptUntilDiscardOrRename ==
    /\ [][ PartialLost => Answered416 \/ RangeIgnoredDiscard \/ RenamedToFinal ]_vars
    /\ [][ (fpc = "probe" /\ fpc' = "get" /\ temp_exists)
             => existing_size' = Len(temp_data) ]_vars

ListingIds == { NewestId - k : k \in 0..(post_count - 1) }

\* every page of the listing
FullScan == range(0, post_count, PageSize)

\* the generator ended, and neither the profile fetch nor a page fetch raised
EndedWithoutFetchError ==
    ppc = "done" /\ end_cause \notin {"user_error", "fetch_error"}

RangeStartSide == IF fetch_mode.start = Keyword THEN 0 ELSE fetch_mode.start

RangeEndSide == IF fetch_mode.end = Keyword THEN post_count ELSE fetch_mode.end

\* a range descriptor whose two sides lie in [0, total], after parse_fetch_mode
OffsetRangePlanned ==
    /\ fetch_mode.kind = "range"
    /\ offsets.kind # "none"
    /\ RangeStartSide <= post_count /\ RangeEndSide <= post_count

\* C33: for a descriptor A-B whose two sides both lie in [0, total], the plan
\* is A, A+50, A+100, ... with ceil((B-A)/50) offsets (none when B <= A):
\* every offset is below B and the last page, even when partial, is included
\* (last offset + 50 >= B).
C33_OffsetRangeCoversUpToEnd ==
    OffsetRangePlanned
        => LET plan == offsets.list
               A == RangeStartSide
               B == RangeEndSide
           IN  /\ offsets.kind = "offsets"
               /\ id_filter = NoFilter
               /\ \A i \in 1..Len(plan) : plan[i] = A + (i - 1) * PageSize /\ plan[i] < B
               /\ IF B <= A THEN plan = << >>
                  ELSE /\ plan # << >>
                       /\ plan[Len(plan)] + PageSize >= B
                       /\ (Len(plan) - 1) * PageSize < B - A
                       /\ Len(plan) * PageSize >= B - A

\* 0-60 over a listing of 120: the pages at 0 and 50 were fetched
C33_Witness ==
    /\ fetch_mode = [kind |-> "range", start |-> 0, end |-> 60]
    /\ post_count = 120
    /\ Planned /\ offsets.list = << 0, 50 >>
    /\ fetched = << 0, 50 >>
    /\ yielded = 100
    /\ end_cause = "exhausted"

\* a range descriptor one side of which is above the total: an id range
IdRangeMode ==
    /\ fetch_mode.kind = "range"
    /\ ~(RangeStartSide <= post_count /\ RangeEndSide <= post_count)

\* the smaller and the larger side of the descriptor, as numbers
LowId == IF RangeStartSide <= RangeEndSide THEN RangeStartSide ELSE RangeEndSide

HighId == IF RangeStartSide <= RangeEndSide THEN RangeEndSide ELSE RangeStartSide

\* C34: when either side of A-B is an id rather than an offset, the producer
\* scans the full offset range and a record is emitted if and only if
\* min(A,B) <= id <= max(A,B) under numeric comparison of the ids, inclusive
\* at both ends, for ids of any digit length.
C34_IdRangeEmitsNumericInterval ==
    (IdRangeMode /\ EndedWithoutFetchError)
        => /\ offsets = [kind |-> "offsets", list |-> FullScan]
           /\ found_ids = { id \in ListingIds : LowId <= id /\ id <= HighId }
           /\ yielded = Cardinality(found_ids)

\* C35: every offset of every plan produced in offset mode is a non-negative
\* multiple of the page size 50, and the offsets of a plan are strictly
\* increasing.
C35_OffsetsAreIncreasingPageMultiples ==
    Planned
        => LET plan == offsets.list IN
           \A i \in 1..Len(plan) :
              /\ plan[i] >= 0
              /\ plan[i] % PageSize = 0
              /\ i > 1 => plan[i - 1] < plan[i]

\* records carrying both boundary ids of the id range have been emitted
BoundariesEmitted ==
    /\ id_filter.kind = "idrange"
    /\ id_filter.id1 \in found_ids /\ id_filter.id2 \in found_ids

\* C36: in id-range mode, once records carrying both boundary ids have been
\* emitted, the producer fetches no further listing page and emits no
\* further record.
C36_StopsOnceBothBoundariesEmitted ==
    /\ [](BoundariesEmitted => ppc = "done" /\ end_cause = "early_stop")
    /\ [][ BoundariesEmitted => fetched' = fetched /\ yielded' = yielded ]_vars

\* the three newest records of 120 were emitted and the scan stopped after
\* the first of three pages
C36_Witness ==
    /\ fetch_mode = [kind |-> "range", start |-> NewestId - 2, end |-> NewestId]
    /\ post_count = 120
    /\ BoundariesEmitted
    /\ found_ids = {NewestId - 2, NewestId - 1, NewestId}
    /\ fetched = << 0 >> /\ yielded = 3
    /\ epc = "ended"

\* the fetch of a listing page is attempted and fails
PageFetchFails ==
    ppc = "fetch" /\ Len(fetched') = Len(fetched) + 1 /\ ppc' # "yield"

\* C37: a fetch error for one listing page is not fatal to the run: the
\* items of that page are skipped and the producer continues with the
\* remaining offsets of the plan, so records of later pages are still emitted.
C37_PageFetchErrorSkipsThePage ==
    /\ [][ PageFetchFails
             => /\ ppc' = "fetch" /\ next_offset' = next_offset + 1
                /\ epc' = epc /\ end_cause' = end_cause ]_vars
    /\ [](ppc = "done" /\ end_cause \notin {"user_error", "parse_error", "index_error",
                                           "unbound_error", "early_stop"}
             => Len(fetched) = Len(offsets.list))

\* C40: for every descriptor the planner accepts and every total >= 0, when
\* all fetches succeed the producer ends by exhausting its plan or by the
\* id-range early stop and never by an internal exception: the first element
\* of the plan is read only when the plan is non-empty, and the id-range
\* boundary values are read only in id-range mode.
C40_EndsWithoutInternalException ==
    (EndedWithoutFetchError /\ end_cause # "parse_error")
        => end_cause \in {"exhausted", "early_stop"}

(***************************************************************************)
(* Properties of the acknowledgements and of the final statistics          *)
(***************************************************************************)
\* the records on the queue, and the records in the hands of the workers
Queued == { post_queue[i] : i \in 1..Len(post_queue) } \ {Sentinel}

InHand == { wpost[w] : w \in WorkerIds } \ {Sentinel}

\* every acknowledgement is the one task_done of a worker for the record it
\* holds, not acknowledged before; a record is acknowledged exactly when it
\* has left the queue and the hands of the workers
AckedExactlyOnce ==
    /\ [][ (acked' # acked \/ unfinished_tasks' < unfinished_tasks)
             => \E w \in WorkerIds :
                   /\ wpc[w] = "task_done" /\ IsRecord(wpost[w])
                   /\ wpost[w] \notin acked
                   /\ acked' = acked \cup {wpost[w]}
                   /\ unfinished_tasks' = unfinished_tasks - 1 ]_vars
    /\ [](\A id \in enqueued : id \in acked <=> (id \notin Queued /\ id \notin InHand))

\* C38 as stated: every record dequeued by a download worker is acknowledged
\* with task_done exactly once, whatever its outcome; hence the queue's
\* unfinished-task count always equals the number of records enqueued and
\* not yet fully processed.
C38_UnfinishedCountsRecordsOnly ==
    /\ AckedExactlyOnce
    /\ [](unfinished_tasks = Cardinality(enqueued \ acked))

\* C38 amended: every record dequeued by a download worker is acknowledged
\* with task_done exactly once, whatever its outcome; the unfinished-task
\* count equals the number of records enqueued and not yet acknowledged plus
\* the number of termination markers put on the queue.
C38_UnfinishedCountsRecordsAndMarkers ==
    /\ AckedExactlyOnce
    /\ [](unfinished_tasks = Cardinality(enqueued \ acked) + sentinels_put)

\* a record whose processing raised and two others were acknowledged, and
\* the markers were put
C38_Witness ==
    /\ acked = PostIds
    /\ \E id \in acked : posts[id].raises
    /\ download_stats.failed >= 1
    /\ sentinels_put = MaxWorkers
    /\ unfinished_tasks = MaxWorkers

\* C39: when a pipeline run reaches Done, downloaded + skipped + failed =
\* total (extracted): every record counted as extracted is counted in exactly
\* one of the three outcome counters by the time the final statistics are
\* read.
C39_OutcomesAddUpToTotal ==
    mainpc = "done"
        => final_stats.downloaded + final_stats.skipped + final_stats.failed
              = final_stats.total

\* two transfers are under way at the same time: two files dispatched by one
\* call of process_post, or files dispatched by the calls of two workers
InPool(w) == dpc[w] = "pool"

Concurrent(w, i, v, j) ==
    /\ InPool(w) /\ i \in dispatched[w]
    /\ InPool(v) /\ j \in dispatched[v]
    /\ << w, i >> # << v, j >>

\* C31: no two transfers under way at the same time have the same destination
\* path: the files dispatched by one call of process_post have pairwise
\* distinct save paths, and the files dispatched for records that different
\* workers process at the same time have distinct save paths.
C31_ConcurrentDestinationsDistinct ==
    \A w \in DestWorkers, v \in DestWorkers :
        \A i \in dispatched[w], j \in dispatched[v] :
            Concurrent(w, i, v, j) => downloads[w][i] # downloads[v][j]

\* two workers are in their pools at once, one with two files of the same
\* sanitized name, the other with a two-digit index among its files
C31_Witness ==
    \E w \in DestWorkers, v \in DestWorkers :
        /\ w # v /\ InPool(w) /\ InPool(v)
        /\ \E i \in dispatched[w], j \in dispatched[w] :
              i # j /\ dpost[w].names[i] = dpost[w].names[j]
        /\ ManyFiles \in dispatched[v]
        /\ post_folder_name = "title"

====
